---- MODULE Spec2Model ----
(***************************************************************************)
(* Target dependency graph, lifecycle and incremental rebuild of the       *)
(* build engine (pymake/core/target.py).                                   *)
(*                                                                         *)
(* A process run owns one event loop; every Target method decorated with   *)
(* @asyncio.cached is a coroutine whose steps between two suspension       *)
(* points are one action.  The file system (outputs and source files with  *)
(* their modification times) survives a process run; the memoised          *)
(* coroutines do not.                                                      *)
(***************************************************************************)
EXTENDS Integers, FiniteSets, Sequences, TLC

\* ------------------------------------------------------------------ bounds
\* The clock: every write to the file system or to an option takes one tick.
MaxTime == 3
\* External callers (Make.build, Make.clean, ...) of a Target method per run.
MaxCalls == 2
\* Process runs over the same build directory.
MaxRuns == 2
\* Changes made to the file system by something else than the build.
MaxEnv == 1
\* Callers of build per process run when rebuilding.
RebuildCalls == 1
MaxNodes == 6
MaxExitCode == 2
MaxRegistrations == 3
MaxCommands == 3
MaxProbes == 2
\* Entries of the compile-commands store.
MaxEntries == 3
\* With-blocks (contexts, makefile loads) in progress at once.
MaxDepth == 3
\* Items of a LibraryList, and of one argument of LibraryList.extend.
MaxLength == 4
MaxArgument == 2

\* ------------------------------------------------------------ the universe
Targets == {"gen", "lib", "exe"}
SourceFiles == {"src"}
\* Requirements not resolved yet (RequiredPackage), parsed from a string.
Requirements == {"gen>=1"}
\* A target's output path is identified with the target's name.
\* Files a target generates besides its output (Target.other_generated_files).
AuxFiles == {"lib.d"}
Files == Targets \cup SourceFiles \cup AuxFiles
\* Declaration order: a target can only depend on targets declared before it.
Declared == [gen |-> {}, lib |-> {"gen"}, exe |-> {"gen", "lib"}]
NoOutput == "None"
Directories == {"cwd", "build", "build/gen"}

Ops == {"preload", "initialize", "build"}
Hooks == {"__preload__", "__initialize__", "__prebuild__", "__build__"}

\* What a finished coroutine left in its future.
Returned == {"ok", "uptodate", "built"}
Raised == {"GroupError", "AttributeError", "FileNotFoundError", "BuildError"}
Finished == Returned \cup Raised
Running == {"start", "await_preload", "await_initialize", "group1", "group2",
            "group", "check", "building"}

VARIABLES
    dependencies,           \* Target.dependencies: targets and files
    preload_dependencies,   \* Target.preload_dependencies
    output,                 \* Target.output: a path or None
    present,                \* files that exist
    mtime,                  \* st_mtime of the files that exist
    now,                    \* the clock
    pc,                     \* per target and cached method: not called, the
                            \* suspension point it is at, or its outcome
    ran,                    \* how often each hook of each target was executed
    cwd,                    \* the process working directory
    saved_cwd,              \* what utils.chdir of a target restores on exit
    waiting,                \* external callers awaiting a method of a target
    observed,               \* the outcomes external callers were handed
    calls,                  \* external calls made in this run
    run,                    \* the process run
    env,                    \* file system changes made by the environment
    option,                 \* the value of the node's option
    options_changed,        \* when the option's value last changed
    last_built,             \* when __build__ of a target last completed
    added,                  \* the last call of Dependencies.add and its outcome
    driver,                 \* what drives the build: pymake's command line,
                            \* pymake's Make or dan's Make
    required_targets,       \* Make.required_targets: the name filter
    targets,                \* Make.targets (dan), Make.active_targets (pymake)
    tasks,                  \* the targets Make.build created a task for
    make,                   \* where Make.build is, or how it ended
    raised,                 \* the failure Make.build raised
    log,                    \* the failures logged by Make.build
    clean_pc,               \* per target: where Target.clean is, or its outcome
    scheduled,              \* per target: the removals its clean has scheduled
    install_pc,             \* per target: where Target.install is, or its
                            \* outcome
    installed_files,        \* per target: the list Target.install returns
    placed,                 \* per target: the files its install has written
    mode,                   \* the InstallMode of the installation
    gathered_files,         \* Make.install: what gather of the install tasks
                            \* returned, one entry per installed target
    manifest,               \* the manifest file Make.install writes
    tests,                  \* Make.tests: the selected tests
    exit_code,              \* per test: the exit code of its executable
    test_result,            \* what Make.test returned
    registered,             \* MakeFile.__targets: the registered targets
    registrations,          \* calls of MakeFile.register
    step,                   \* the toolchain step in progress
    ran_commands,           \* the commands the step has run, in order
    diags,                  \* the diagnostics collected by the step
    failure,                \* what the step raised
    spawned,                \* per probe input: compiler processes spawned
    probed,                 \* per probe input: the results returned, in order
    data,                   \* CompileCommands.data: the entries of the store
    context,                \* the global context of dan.core.include
    ctx_stack,              \* per context: Context.__ctx_stack
    makefile_stack,         \* per context: Context.__makefile_stack
    scopes,                 \* the with-blocks in progress, innermost last,
                            \* each with what was active when it started
    released,               \* the with-block left last: what was active
                            \* before it started and after it finished
    imported_makefiles,     \* per context: Context.imported_makefiles
    node_targets,           \* per makefile: MakeFile.__targets
    node_tests,             \* per makefile: MakeFile.__tests
    find_cache,             \* functools.cache of MakeFile.__find
    find_result,            \* the last call of MakeFile.find and its result
    for_install,            \* Make.for_install
    initialized,            \* Make.initialize has been executed
    rpath,                  \* the rpath of the target toolchain
    installing,             \* where Make.install is
    settings,               \* the values of the settings
    applied,                \* the last input applied and its outcome
    lst                     \* LibraryList._lst

config == <<dependencies, preload_dependencies, output>>
fs == <<present, mtime>>
loop == <<pc, ran, cwd, saved_cwd>>
callers == <<waiting, observed, calls>>
opts == <<option, options_changed>>
maker == <<driver, required_targets, targets, tasks, make, raised, log>>
cleaner == <<clean_pc, scheduled>>
installer == <<install_pc, installed_files, placed, mode>>
manifests == <<gathered_files, manifest>>
tester == <<tests, exit_code, test_result>>
registry == <<registered, registrations>>
toolchain == <<step, ran_commands, diags, failure, spawned, probed>>
beyond_build == <<cleaner, installer, manifests, tester, registry, toolchain>>
contexts == <<context, ctx_stack, makefile_stack, scopes, released,
              imported_makefiles>>
tree == <<node_targets, node_tests, find_cache, find_result>>
configure == <<for_install, initialized, rpath, installing, settings, applied>>
setup == <<data, contexts, tree, configure, lst>>
vars == <<dependencies, preload_dependencies, output, present, mtime, now, pc,
          ran, cwd, saved_cwd, waiting, observed, calls, run, env, option,
          options_changed, last_built, added, driver, required_targets,
          targets, tasks, make, raised, log,
          clean_pc, scheduled, install_pc, installed_files, placed, mode,
          gathered_files, manifest, tests, exit_code, test_result, registered,
          registrations, step, ran_commands, diags, failure, spawned, probed,
          data, context, ctx_stack, makefile_stack, scopes, released,
          imported_makefiles,
          node_targets, node_tests, find_cache, find_result, for_install,
          initialized, rpath, installing, settings, applied, lst>>

\* ------------------------------------------------------------------ helpers
Max(S) == CHOOSE m \in S : \A x \in S : x <= m

\* Target.build_path: the node's build directory unless the target names one.
build_path(t) == IF t = "gen" THEN "build/gen" ELSE "build"

\* The targets among the preload dependencies alone.
preload_targets_only(t) == preload_dependencies[t] \cap Targets

\* Target.target_dependencies
target_dependencies(t) ==
    (dependencies[t] \cup preload_dependencies[t]) \cap Targets

\* ------------------------------------------------------- Dependencies.add
\* What can be handed to Dependencies.add: a value with its Python type.  A
\* class is named by the target it declares; "Unregistered" is a subclass of
\* Target no makefile has registered, "int" is no subclass of Target.
Value(kind, value) == [kind |-> kind, value |-> value]
Inputs ==
    {Value("Target", t) : t \in {"gen", "lib"}}
    \cup {Value("FileDependency", "src"), Value("Path", "src")}
    \cup {Value("type", c) : c \in {"gen", "Unregistered", "int"}}
    \cup {Value("str", v) : v \in {"gen", "src", "gen>=1", "???"}}
    \cup {Value("RequiredPackage", r) : r \in Requirements}
    \cup {Value("int", "42"), Value("NoneType", "None")}

\* Package.all: the packages known by name.
Packages == {"gen"}

\* issubclass(dependency, Target)
IsTargetClass(c) == c \in Targets \cup {"Unregistered"}

\* MakeFile.find (pymake/core/makefile.py): the registered target whose name
\* equals the argument, None when there is none; a name is a str.
find(name) ==
    LET found == {t \in Targets : Value("str", t) = name}
    IN  IF found # {} THEN CHOOSE t \in found : TRUE ELSE "None"

\* parse_requirement: the requirement a string denotes, or a configuration error
\* naming the string.
parse_requirement(v) ==
    IF v \in Requirements THEN [raise |-> "", names |-> "none", item |-> v]
    ELSE [raise |-> "ConfigurationError", names |-> v, item |-> "None"]

Stored(D, item) == [raise |-> "", names |-> "none", set |-> D \cup {item}]
Failed(D, error, names) == [raise |-> error, names |-> names, set |-> D]

\* Dependencies.add, lines 31-33: the assert raises (unless asserts are
\* stripped, python -O) for a class that is no Target; the class is looked up
\* in the makefile and what find returns is stored.
add_class(D, c) ==
    IF IsTargetClass(c) THEN {Stored(D, find(Value("type", c)))}
    ELSE {Failed(D, "AssertionError", "none"),
          Stored(D, find(Value("type", c)))}

\* Dependencies.add, lines 53-55
add_unmatched(D, dependency) ==
    {Failed(D, "RuntimeError", dependency.value)}

\* Dependencies.add, lines 26-55: the outcomes of adding a value to the set D
\* of a target, each with the exception raised ("" for none), the value the
\* exception names and the set that is left.
add(D, dependency) ==
    LET k == dependency.kind
        v == dependency.value
    IN  IF k \in {"Target", "FileDependency"} THEN {Stored(D, v)}
        ELSE IF k = "type" THEN add_class(D, v)
        ELSE IF k = "str" THEN
            IF v \in Packages THEN {Stored(D, v)}
            ELSE IF v \in present THEN {Stored(D, v)}
            ELSE LET r == parse_requirement(v)
                 IN  IF r.raise # "" THEN {Failed(D, r.raise, r.names)}
                     ELSE {Stored(D, r.item)}
        ELSE IF k = "Path" THEN {Stored(D, v)}
        ELSE IF k = "RequiredPackage" THEN {Stored(D, v)}
        ELSE add_unmatched(D, dependency)

\* --------------------------------------------------------------- staleness
\* The result of reading a modification time: the exception raised ("" when
\* none) or the time.
Time(v) == [raise |-> "", value |-> v]
Raise(e) == [raise |-> e, value |-> 0]

\* Target.modification_time: st_mtime of the output, 0.0 when it is missing;
\* self.output.exists() on an output of None is an AttributeError.
modification_time(t) ==
    IF output[t] = NoOutput THEN Raise("AttributeError")
    ELSE IF t \in present THEN Time(mtime[t]) ELSE Time(0)

\* FileDependency.modification_time: stat() of a missing file raises.
file_modification_time(f) ==
    IF f \in present THEN Time(mtime[f]) ELSE Raise("FileNotFoundError")

item_modification_time(i) ==
    IF i \in Targets THEN modification_time(i) ELSE file_modification_time(i)

\* The members are not looked at.
deps_modification_time_zero(D) == {Time(0)}

\* Dependencies.modification_time: the maximum over the members, 0.0 for none.
\* The members are visited in the set's iteration order, so any member that
\* raises may be the one whose exception comes out.
deps_modification_time(D) ==
    LET items == {item_modification_time(i) : i \in D}
        errors == {m \in items : m.raise # ""}
    IN  IF errors # {} THEN errors
        ELSE {Time(Max({0} \cup {m.value : m \in items}))}

\* The existence of the output is not looked at.
output_never_missing(t) == FALSE

\* Target.up_to_date, line 333: an expected output that does not exist
output_missing(t) == output[t] # NoOutput /\ t \notin present

\* The times are not compared.
never_outdated(dependencies_time, own_time) == FALSE

\* Target.up_to_date, line 337
outdated(dependencies_time, own_time) == dependencies_time > own_time

RECURSIVE up_to_date(_)

\* FileDependency.up_to_date is the class attribute True.
item_up_to_date(i) == IF i \in Targets THEN up_to_date(i) ELSE {"True"}

\* Dependencies.up_to_date: the first member found not up to date ends the
\* iteration; which member comes first is the set's iteration order.
deps_up_to_date(D) ==
    {r \in {"False"} \cup Raised : \E i \in D : r \in item_up_to_date(i)}
    \cup {r \in {"True"} : \A i \in D : "True" \in item_up_to_date(i)}

\* Target.up_to_date: the outcomes the evaluation can have, "True", "False"
\* or the exception it raises.
up_to_date(t) ==
    IF output_missing(t) THEN {"False"}
    ELSE LET D == deps_up_to_date(dependencies[t])
             own == modification_time(t)
             compare(m) == IF m.raise # "" THEN m.raise
                           ELSE IF own.raise # "" THEN own.raise
                           ELSE IF outdated(m.value, own.value) THEN "False"
                           ELSE "True"
         IN  (D \ {"True"}) \cup
             (IF "True" \in D
              THEN {compare(m) : m \in deps_modification_time(dependencies[t])}
              ELSE {})

\* --------------------------------------------------------------- coroutines
\* build, or preload, without its decorator.
cached_but_build(op) == op \in {"preload", "initialize"}
cached_but_preload(op) == op \in {"initialize", "build"}

\* The methods of Target decorated with @asyncio.cached (lines 292, 310, 346).
cached(op) == op \in {"preload", "initialize", "build"}

\* asyncio.cached: the first call of a method on a target starts the
\* coroutine, every other call is handed the same future.  Calling op on
\* every target of S:
Invoke(p, S, op) ==
    [t \in Targets |->
        IF t \in S /\ (p[t][op] = "none" \/ ~cached(op))
        THEN [p[t] EXCEPT ![op] = "start"] ELSE p[t]]

At(p, t, op, where) == [p EXCEPT ![t][op] = where]

\* asyncio.TaskGroup: leaving the group waits for every task created in it;
\* a task that raised does not cancel the others, the group raises once all
\* are done.
\* A group that is left at the first failure, abandoning the other tasks.
GroupDoneOrFailed(S, op) ==
    \/ \A d \in S : pc[d][op] \in Finished
    \/ \E d \in S : pc[d][op] \in Raised
GroupDone(S, op) == \A d \in S : pc[d][op] \in Finished
GroupFailed(S, op) == \E d \in S : pc[d][op] \in Raised

Ran(t, hook) == [ran EXCEPT ![t][hook] = @ + 1]

\* Target.requires, lines 270-273
requires(t) == dependencies[t] \cap Requirements

\* The resolver of requirements: each requirement resolves to the package
\* target that provides it, or the resolver fails with "not found".
load_requirements(R) ==
    {[raise |-> FALSE, found |-> {"gen" : r \in R}],
     [raise |-> TRUE, found |-> {}]}

\* Dependencies.update, lines 57-59: every item is added to the set.
update(D, items) == D \cup items

\* Target.__load_unresolved_dependencies, lines 288-290: the outcomes of the
\* task, with the dependency set it leaves.
load_unresolved_dependencies(t) ==
    IF Cardinality(requires(t)) > 0
    THEN {[raise |-> l.raise, dependencies |-> update(dependencies[t], l.found)] :
            l \in load_requirements(requires(t))}
    ELSE {[raise |-> FALSE, dependencies |-> dependencies[t]]}

\* No preload dependency is built.
preload_group1_empty(t) == {}

\* Target.preload, lines 296-299: the first task group builds the preload
\* dependencies (no requirement is unresolved: requires is empty).
preload_group1(t) == preload_dependencies[t]

\* The event loop runs every coroutine that can go on (it was just called, or
\* what it awaits is done) up to its next suspension point before it handles
\* anything that takes time: a hook, a process, a new caller.
Ready(t) ==
    \/ \E op \in Ops : pc[t][op] = "start"
    \/ pc[t]["preload"] = "group1" /\ GroupDone(preload_group1(t), "build")
    \/ pc[t]["initialize"] = "await_preload" /\ pc[t]["preload"] \in Finished
    \/ pc[t]["build"] = "await_initialize" /\ pc[t]["initialize"] \in Finished
    \/ \E op \in Ops : waiting[t][op] > 0 /\ pc[t][op] \in Finished

\* asyncio.gather in Make.build has its outcome.  dan (return_exceptions=True):
\* every task is done.  pymake: every task is done, or one is done with an
\* exception.
Done(t) == waiting[t]["build"] = 0
GatherReady ==
    /\ make = "gather"
    /\ \/ \A t \in tasks : Done(t)
       \/ /\ driver # "dan.make"
          /\ \E t \in tasks : Done(t) /\ pc[t]["build"] \in Raised

Idle == (\A t \in Targets : ~Ready(t)) /\ ~GatherReady

PreloadStart(t) ==
    /\ pc[t]["preload"] = "start"
    /\ pc' = Invoke(At(pc, t, "preload", "group1"), preload_group1(t), "build")
    /\ UNCHANGED <<config, fs, now, ran, cwd, saved_cwd, callers, run, env,
                   opts, last_built, added, maker>>
    /\ UNCHANGED beyond_build
    /\ UNCHANGED setup

\* Target.preload, lines 296-303: the first group is left, the requirements
\* are resolved into the dependency set (or the resolver failed); the second
\* group preloads the target dependencies.
PreloadGroup1(t) ==
    /\ pc[t]["preload"] = "group1"
    /\ GroupDone(preload_group1(t), "build")
    /\ UNCHANGED <<preload_dependencies, output>>
    /\ \E loaded \in load_unresolved_dependencies(t) :
        /\ dependencies' = [dependencies EXCEPT ![t] = loaded.dependencies]
        /\ pc' = IF GroupFailed(preload_group1(t), "build") \/ loaded.raise
                 THEN At(pc, t, "preload", "GroupError")
                 ELSE Invoke(At(pc, t, "preload", "group2"),
                             target_dependencies(t)', "preload")
    /\ UNCHANGED <<fs, now, ran, cwd, saved_cwd, callers, run, env, opts,
                   last_built, added, maker>>
    /\ UNCHANGED beyond_build
    /\ UNCHANGED setup

\* Target.preload, lines 303-308: __preload__ runs once the group is left.
PreloadGroup2(t) ==
    /\ pc[t]["preload"] = "group2"
    /\ Idle
    /\ GroupDone(target_dependencies(t), "preload")
    /\ IF GroupFailed(target_dependencies(t), "preload")
       THEN /\ pc' = At(pc, t, "preload", "GroupError")
            /\ ran' = ran
       ELSE /\ pc' = At(pc, t, "preload", "ok")
            /\ ran' = Ran(t, "__preload__")
    /\ UNCHANGED <<config, fs, now, cwd, saved_cwd, callers, run, env, opts,
                   last_built, added, maker>>
    /\ UNCHANGED beyond_build
    /\ UNCHANGED setup

\* Target.initialize, line 312: await self.preload()
InitializeStart(t) ==
    /\ pc[t]["initialize"] = "start"
    /\ pc' = Invoke(At(pc, t, "initialize", "await_preload"), {t}, "preload")
    /\ UNCHANGED <<config, fs, now, ran, cwd, saved_cwd, callers, run, env,
                   opts, last_built, added, maker>>
    /\ UNCHANGED beyond_build
    /\ UNCHANGED setup

\* Target.initialize, lines 312-317: a failed preload is raised again, else
\* the target dependencies are initialized in a task group.
InitializeResume(t) ==
    /\ pc[t]["initialize"] = "await_preload"
    /\ pc[t]["preload"] \in Finished
    /\ pc' = IF pc[t]["preload"] \in Raised
             THEN At(pc, t, "initialize", pc[t]["preload"])
             ELSE Invoke(At(pc, t, "initialize", "group"),
                         target_dependencies(t), "initialize")
    /\ UNCHANGED <<config, fs, now, ran, cwd, saved_cwd, callers, run, env,
                   opts, last_built, added, maker>>
    /\ UNCHANGED beyond_build
    /\ UNCHANGED setup

\* Target.initialize, lines 317-325: the output is already absolute (made so
\* by __init__, lines 257-260); __initialize__ runs.
InitializeGroup(t) ==
    /\ pc[t]["initialize"] = "group"
    /\ Idle
    /\ GroupDone(target_dependencies(t), "initialize")
    /\ IF GroupFailed(target_dependencies(t), "initialize")
       THEN /\ pc' = At(pc, t, "initialize", "GroupError")
            /\ ran' = ran
       ELSE /\ pc' = At(pc, t, "initialize", "ok")
            /\ ran' = Ran(t, "__initialize__")
    /\ UNCHANGED <<config, fs, now, cwd, saved_cwd, callers, run, env, opts,
                   last_built, added, maker>>
    /\ UNCHANGED beyond_build
    /\ UNCHANGED setup

\* build goes on to its dependencies without awaiting initialize.
BuildStartWithoutInitialize(t) ==
    /\ pc[t]["build"] = "start"
    /\ pc' = Invoke(At(pc, t, "build", "group"), target_dependencies(t), "build")
    /\ UNCHANGED <<config, fs, now, ran, cwd, saved_cwd, callers, run, env,
                   opts, last_built, added, maker>>
    /\ UNCHANGED beyond_build
    /\ UNCHANGED setup

\* Target.build, line 348: await self.initialize()
BuildStart(t) ==
    /\ pc[t]["build"] = "start"
    /\ pc' = Invoke(At(pc, t, "build", "await_initialize"), {t}, "initialize")
    /\ UNCHANGED <<config, fs, now, ran, cwd, saved_cwd, callers, run, env,
                   opts, last_built, added, maker>>
    /\ UNCHANGED beyond_build
    /\ UNCHANGED setup

\* Target.build, line 350, and _build_dependencies, lines 341-344
BuildResume(t) ==
    /\ pc[t]["build"] = "await_initialize"
    /\ pc[t]["initialize"] \in Finished
    /\ pc' = IF pc[t]["initialize"] \in Raised
             THEN At(pc, t, "build", pc[t]["initialize"])
             ELSE Invoke(At(pc, t, "build", "group"),
                         target_dependencies(t), "build")
    /\ UNCHANGED <<config, fs, now, ran, cwd, saved_cwd, callers, run, env,
                   opts, last_built, added, maker>>
    /\ UNCHANGED beyond_build
    /\ UNCHANGED setup

\* A build that goes on to __prebuild__ whatever became of the dependencies.
BuildGroupIgnoringFailure(t) ==
    /\ pc[t]["build"] = "group"
    /\ Idle
    /\ GroupDone(target_dependencies(t), "build")
    /\ pc' = At(pc, t, "build", "check")
    /\ ran' = Ran(t, "__prebuild__")
    /\ UNCHANGED <<config, fs, now, cwd, saved_cwd, callers, run, env, opts,
                   last_built, added, maker>>
    /\ UNCHANGED beyond_build
    /\ UNCHANGED setup

\* Target.build, lines 350-354: the dependencies are built, __prebuild__ runs.
BuildGroup(t) ==
    /\ pc[t]["build"] = "group"
    /\ Idle
    /\ GroupDone(target_dependencies(t), "build")
    /\ IF GroupFailed(target_dependencies(t), "build")
       THEN /\ pc' = At(pc, t, "build", "GroupError")
            /\ ran' = ran
       ELSE /\ pc' = At(pc, t, "build", "check")
            /\ ran' = Ran(t, "__prebuild__")
    /\ UNCHANGED <<config, fs, now, cwd, saved_cwd, callers, run, env, opts,
                   last_built, added, maker>>
    /\ UNCHANGED beyond_build
    /\ UNCHANGED setup

\* __build__ is called whether the target is up to date or not.
build_decision_always(t, r) ==
    IF r \in Raised THEN "raise"
    ELSE IF output[t] = NoOutput THEN "raise"
    ELSE "build"

\* Target.build, lines 356-364: what build does with an outcome of
\* self.up_to_date: "return" (up to date), "raise", or "build" (__build__ is
\* called inside utils.chdir).  self.output.exists() on line 359 raises for an
\* output of None.
build_decision(t, r) ==
    IF r \in Raised THEN "raise"
    ELSE IF r = "True" THEN "return"
    ELSE IF output[t] = NoOutput THEN "raise"
    ELSE "build"

\* Target.build, lines 356-364: the staleness check.  utils.chdir saves the
\* working directory and enters the build path.
BuildCheck(t) ==
    /\ pc[t]["build"] = "check"
    /\ Idle
    /\ \E r \in up_to_date(t) :
        LET d == build_decision(t, r) IN
        \/ /\ d = "raise"
           /\ pc' = At(pc, t, "build", IF r \in Raised THEN r ELSE "AttributeError")
           /\ UNCHANGED <<ran, cwd, saved_cwd>>
        \/ /\ d = "return"
           /\ pc' = At(pc, t, "build", "uptodate")
           /\ UNCHANGED <<ran, cwd, saved_cwd>>
        \/ /\ d = "build"
           /\ pc' = At(pc, t, "build", "building")
           /\ ran' = Ran(t, "__build__")
           /\ saved_cwd' = [saved_cwd EXCEPT ![t] = cwd]
           /\ cwd' = build_path(t)
    /\ UNCHANGED <<config, fs, now, callers, run, env, opts, last_built,
                   added, maker>>
    /\ UNCHANGED beyond_build
    /\ UNCHANGED setup

\* Target.build, lines 364-367: __build__ completes, writing the output, or
\* raises; utils.chdir restores the working directory it saved either way.
BuildFinish(t) ==
    /\ pc[t]["build"] = "building"
    /\ Idle
    /\ \/ /\ now < MaxTime
          /\ now' = now + 1
          /\ present' = present \cup {t}
          /\ mtime' = [mtime EXCEPT ![t] = now + 1]
          /\ last_built' = [last_built EXCEPT ![t] = now + 1]
          /\ pc' = At(pc, t, "build", "built")
       \/ /\ pc' = At(pc, t, "build", "BuildError")
          /\ UNCHANGED <<fs, now, last_built>>
    /\ cwd' = saved_cwd[t]
    /\ saved_cwd' = [saved_cwd EXCEPT ![t] = "none"]
    /\ UNCHANGED <<config, ran, callers, run, env, opts, added, maker>>
    /\ UNCHANGED beyond_build
    /\ UNCHANGED setup

\* ---------------------------------------------------------------- callers
\* The state of a process that has just constructed its targets.
NoPc == [t \in Targets |-> [op \in Ops |-> "none"]]
NoRan == [t \in Targets |-> [h \in Hooks |-> 0]]
NoWaiting == [t \in Targets |-> [op \in Ops |-> 0]]
NoObserved == [t \in Targets |-> [op \in Ops |-> {}]]
NoSaved == [t \in Targets |-> "none"]

\* No coroutine has been called yet in this process run.
Fresh == pc = NoPc

\* Nothing was added yet.
NoAdd == [input |-> Value("none", "none"), raise |-> "", names |-> "none",
          before |-> {}, target |-> "none"]

\* Dependencies.__init__, lines 16-20, from Target.__init__, line 251: a
\* declared dependency is added to the set of the target being constructed.
Add(t, dependency) ==
    /\ Fresh
    /\ \E o \in add(dependencies[t], dependency) :
        /\ dependencies' = [dependencies EXCEPT ![t] = o.set]
        /\ added' = [input |-> dependency, raise |-> o.raise,
                     names |-> o.names, before |-> dependencies[t],
                     target |-> t]
    /\ UNCHANGED <<preload_dependencies, output, fs, now, loop, callers, run,
                   env, opts, last_built, maker>>
    /\ UNCHANGED beyond_build
    /\ UNCHANGED setup

\* A caller outside the target graph (Make.build, Make.clean through
\* initialize, ...) calls a cached method of a target and awaits it.
ExternalCall(t, op) ==
    /\ calls < MaxCalls
    /\ Idle
    /\ calls' = calls + 1
    /\ pc' = Invoke(pc, {t}, op)
    /\ waiting' = [waiting EXCEPT ![t][op] = @ + 1]
    /\ UNCHANGED <<config, fs, now, ran, cwd, saved_cwd, observed, run, env,
                   opts, last_built, added, maker>>
    /\ UNCHANGED beyond_build
    /\ UNCHANGED setup

\* A caller of build when rebuilding.
BuildCall(t) == calls < RebuildCalls /\ ExternalCall(t, "build")

\* The awaited future is done: the caller is handed its result or exception.
\* The done callback of a task of dan's Make.build (progress.on_done,
\* dan/make.py lines 334-336) removes the target from Make.targets; the one of
\* pymake's Make.build removes it from a copy.
Deliver(t, op) ==
    /\ waiting[t][op] > 0
    /\ pc[t][op] \in Finished
    /\ waiting' = [waiting EXCEPT ![t][op] = @ - 1]
    /\ observed' = [observed EXCEPT ![t][op] = @ \cup {pc[t][op]}]
    /\ targets' = IF make = "gather" /\ driver = "dan.make" /\ op = "build"
                  THEN targets \ {t} ELSE targets
    /\ UNCHANGED <<config, fs, now, loop, calls, run, env, opts, last_built,
                   added, driver, required_targets, tasks, make, raised, log>>
    /\ UNCHANGED beyond_build
    /\ UNCHANGED setup

\* ------------------------------------------------------------------- Make
\* Names are sequences of characters.  The root makefile "r" has one child
\* makefile "s"; gen is registered in the child, lib and exe in the root.
Name(t) ==
    CASE t = "gen" -> <<"g", "e", "n">>
      [] t = "lib" -> <<"l", "i", "b">>
      [] t = "exe" -> <<"e", "x", "e">>

MakeFiles == {"r", "s"}
root == "r"

\* MakeFile.children, makefile.py: the makefiles whose parent is m.
children(m) == IF m = "r" THEN {"s"} ELSE {}

\* MakeFile.targets: the targets registered in m.
makefile_targets(m) == IF m = "s" THEN {"gen"} ELSE {"lib", "exe"}

\* Target.makefile
makefile(t) == CHOOSE m \in MakeFiles : t \in makefile_targets(m)

\* MakeFile.fullname: the parent's fullname, a dot, the name.
makefile_fullname(m) == IF m = "r" THEN <<"r">> ELSE <<"r", ".", "s">>

\* Target.fullname, pymake/core/target.py lines 239-240
FullName(t) == makefile_fullname(makefile(t)) \o <<".">> \o Name(t)

\* The name filters a build is requested with: none, or one pattern.
Filters == {{}, {<<"e", "x", "e">>}, {<<"e">>}, {<<"r", ".", "l", "i", "b">>},
            {<<"n", "o">>}, {<<"r", ".", "*">>}}

\* str.find(v) >= 0: v occurs in name.
Contains(name, v) ==
    \E i \in 1..(Len(name) - Len(v) + 1) : SubSeq(name, i, i + Len(v) - 1) = v

\* fnmatch.fnmatch(name, pat) for patterns of literal characters and "*":
\* a "*" stands for any run of characters, every other character for itself.
RECURSIVE fnmatch(_, _)
fnmatch(name, pat) ==
    IF Len(pat) = 0 THEN Len(name) = 0
    ELSE IF Head(pat) = "*"
         THEN \/ fnmatch(name, Tail(pat))
              \/ Len(name) > 0 /\ fnmatch(Tail(name), pat)
         ELSE /\ Len(name) > 0
              /\ Head(name) = Head(pat)
              /\ fnmatch(Tail(name), Tail(pat))

\* MakeFile.all_targets: the targets of m and of the makefiles below it.
RECURSIVE all_targets(_)
all_targets(m) ==
    makefile_targets(m) \cup UNION {all_targets(c) : c \in children(m)}

\* Target.default: gen is only built as a dependency.
default(t) == t # "gen"

\* MakeFile.all_default
all_default == {t \in all_targets(root) : default(t)}

\* pymake's Make.initialize, lines 90-98: the targets whose name or fullname is
\* one of the required ones, the default targets when none is required.
active_targets(required) ==
    IF required # {} /\ Cardinality(required) > 0
    THEN {t \in all_targets(root) :
            Name(t) \in required \/ FullName(t) \in required}
    ELSE all_default

\* dan's Make.__matches, lines 146-150
matches(t, required) ==
    \E r \in required : fnmatch(FullName(t), <<"*">> \o r \o <<"*">>)

\* dan's Make.targets, lines 152-161
make_targets(required) ==
    IF required # {} /\ Cardinality(required) > 0
    THEN {t \in all_targets(root) : matches(t, required)}
    ELSE all_default

\* pymake/cli.py, _set_targets, lines 14-33: the targets whose name contains a
\* required one; "none" when nothing is required.
found_targets(required) ==
    {t \in Targets : \E v \in required : Contains(FullName(t), v)}

NoFailure == [target |-> "none", error |-> "none"]
Failure(t) == [target |-> t, error |-> pc[t]["build"]]
Aggregate == [target |-> "make", error |-> "RuntimeError"]
NoMatch == [target |-> "make", error |-> "no match"]

\* The targets the driver builds.  pymake's command line constructs Make
\* without targets, so that Make.initialize replaces what _set_targets selected
\* by the default targets.
Resolved ==
    CASE driver = "dan.make" -> make_targets(required_targets)
      [] driver = "pymake.make" -> active_targets(required_targets)
      [] driver = "pymake.cli" -> active_targets({})

\* Make.build up to asyncio.gather (pymake/make.py lines 119-144; dan/make.py
\* lines 352-356 with progress.__enter__, lines 324-345): the targets are
\* resolved and one task per target is created, each calling build of its
\* target.  From the command line _set_targets runs first and raises when
\* nothing matches.
MakeBuild ==
    /\ make = "none"
    /\ Fresh
    /\ IF /\ driver = "pymake.cli"
          /\ Cardinality(required_targets) # 0
          /\ Cardinality(found_targets(required_targets)) = 0
       THEN /\ make' = "raised"
            /\ raised' = NoMatch
            /\ UNCHANGED <<targets, tasks, pc, waiting>>
       ELSE /\ targets' = Resolved
            /\ tasks' = Resolved
            /\ pc' = Invoke(pc, Resolved, "build")
            /\ waiting' = [t \in Targets |->
                            IF t \in Resolved
                            THEN [waiting[t] EXCEPT !["build"] = @ + 1]
                            ELSE waiting[t]]
            /\ make' = "gather"
            /\ raised' = raised
    /\ UNCHANGED <<config, fs, now, ran, cwd, saved_cwd, observed, calls, run,
                   env, opts, last_built, added, driver, required_targets, log>>
    /\ UNCHANGED beyond_build
    /\ UNCHANGED setup

\* Nothing is logged.
logged_nothing(F) == {}

\* dan's Make.build, lines 359-362: every exception among the results is
\* logged.
logged(F) == {Failure(t) : t \in F}

\* The first failure is raised whatever the number of failures.
outcome_first(F) == IF F = {} THEN NoFailure ELSE Failure(CHOOSE t \in F : TRUE)

\* dan's Make.build, lines 363-367: nothing is raised when no task failed, the
\* failure itself when one did, a RuntimeError when more than one did.
outcome(F) ==
    IF Cardinality(F) = 1 THEN Failure(CHOOSE t \in F : TRUE)
    ELSE IF Cardinality(F) > 1 THEN Aggregate
    ELSE NoFailure

\* asyncio.gather(*tasks, return_exceptions=True), dan/make.py line 357: the
\* results are there when every task is done.
gathered == \A t \in tasks : Done(t)

\* dan's Make.build, lines 357-367
MakeGatherAll ==
    /\ make = "gather"
    /\ driver = "dan.make"
    /\ gathered
    /\ LET errors == {t \in tasks : pc[t]["build"] \in Raised} IN
        /\ log' = log \cup logged(errors)
        /\ raised' = outcome(errors)
        /\ make' = IF errors = {} THEN "returned" ELSE "raised"
    /\ UNCHANGED <<config, fs, now, loop, callers, run, env, opts, last_built,
                   added, driver, required_targets, targets, tasks>>
    /\ UNCHANGED beyond_build
    /\ UNCHANGED setup

\* pymake's Make.build, line 146: asyncio.gather(*tsks) raises the exception
\* of the first task that is done with one, the other tasks go on; it returns
\* when every task is done and none raised.
MakeGather ==
    /\ make = "gather"
    /\ driver # "dan.make"
    /\ \/ /\ \A t \in tasks : Done(t) /\ pc[t]["build"] \notin Raised
          /\ make' = "returned"
          /\ raised' = raised
       \/ \E t \in tasks :
            /\ Done(t) /\ pc[t]["build"] \in Raised
            /\ make' = "raised"
            /\ raised' = Failure(t)
    /\ UNCHANGED <<config, fs, now, loop, callers, run, env, opts, last_built,
                   added, driver, required_targets, targets, tasks, log>>
    /\ UNCHANGED beyond_build
    /\ UNCHANGED setup

\* ------------------------------------------------------------------ clean
CleanRunning == {"start", "await_initialize", "group", "group_failed"}
NoCleanPc == [t \in Targets |-> "none"]
NoScheduled == [t \in Targets |-> {}]

\* Target.other_generated_files: lib generates a dependency file.
other_generated_files(t) == IF t = "lib" THEN {"lib.d"} ELSE {}

\* Make.clean (pymake/make.py lines 191-197, dan/make.py lines 421-424): clean
\* of every active target is called.
MakeClean ==
    /\ make = "none"
    /\ Fresh
    /\ clean_pc = NoCleanPc
    /\ targets' = Resolved
    /\ tasks' = Resolved
    /\ clean_pc' = [t \in Targets |-> IF t \in Resolved THEN "start" ELSE "none"]
    /\ make' = "clean"
    /\ UNCHANGED <<config, fs, now, loop, callers, run, env, opts, last_built,
                   added, driver, required_targets, raised, log, scheduled>>
    /\ UNCHANGED <<installer, manifests, tester, registry, toolchain>>
    /\ UNCHANGED setup

\* Target.clean, line 379: initialize is awaited.
CleanStart(t) ==
    /\ clean_pc[t] = "start"
    /\ clean_pc' = [clean_pc EXCEPT ![t] = "await_initialize"]
    /\ pc' = Invoke(pc, {t}, "initialize")
    /\ UNCHANGED <<config, fs, now, ran, cwd, saved_cwd, callers, run, env,
                   opts, last_built, added, maker, scheduled>>
    /\ UNCHANGED <<installer, manifests, tester, registry, toolchain>>
    /\ UNCHANGED setup

\* The removals Target.clean creates a task for (lines 381-389): of the output
\* when it exists (aiofiles.rmtree of a directory, aiofiles.os.remove of a
\* file), of each other generated file that exists; and the task of __clean__
\* (lines 390-392).
clean_tasks(t) ==
    {f \in {output[t]} \cup other_generated_files(t) : f \in present}
        \cup {"__clean__"}

\* Target.clean, lines 379-392: a failed initialize is raised again, else the
\* body of the task group runs, without suspending.
CleanResume(t) ==
    /\ clean_pc[t] = "await_initialize"
    /\ pc[t]["initialize"] \in Finished
    /\ IF pc[t]["initialize"] \in Raised
       THEN /\ clean_pc' = [clean_pc EXCEPT ![t] = pc[t]["initialize"]]
            /\ scheduled' = scheduled
       ELSE /\ clean_pc' = [clean_pc EXCEPT ![t] = "group"]
            /\ scheduled' = [scheduled EXCEPT ![t] = clean_tasks(t)]
    /\ UNCHANGED <<config, fs, now, loop, callers, run, env, opts, last_built,
                   added, maker>>
    /\ UNCHANGED <<installer, manifests, tester, registry, toolchain>>
    /\ UNCHANGED setup

\* A task of the group runs: os.remove of a file that exists removes it, of a
\* file that does not raises FileNotFoundError; __clean__ does nothing.
CleanTask(t, f) ==
    /\ clean_pc[t] \in {"group", "group_failed"}
    /\ f \in scheduled[t]
    /\ scheduled' = [scheduled EXCEPT ![t] = @ \ {f}]
    /\ IF f = "__clean__" \/ f \in present
       THEN clean_pc' = clean_pc
       ELSE clean_pc' = [clean_pc EXCEPT ![t] = "group_failed"]
    /\ present' = present \ {f}
    /\ mtime' = [g \in Files |-> IF g = f THEN 0 ELSE mtime[g]]
    /\ UNCHANGED <<config, now, loop, callers, run, env, opts, last_built,
                   added, maker>>
    /\ UNCHANGED <<installer, manifests, tester, registry, toolchain>>
    /\ UNCHANGED setup

\* The task group is left (line 380): once every task is done it raises if one
\* of them raised.
CleanGroup(t) ==
    /\ clean_pc[t] \in {"group", "group_failed"}
    /\ scheduled[t] = {}
    /\ clean_pc' = [clean_pc EXCEPT ![t] =
                        IF @ = "group" THEN "ok" ELSE "GroupError"]
    /\ UNCHANGED <<config, fs, now, loop, callers, run, env, opts, last_built,
                   added, maker, scheduled>>
    /\ UNCHANGED <<installer, manifests, tester, registry, toolchain>>
    /\ UNCHANGED setup

\* asyncio.gather of Make.clean: it raises the failure of a clean that raised,
\* and returns when every clean returned.
MakeCleanGather ==
    /\ make = "clean"
    /\ \/ \E t \in tasks :
            /\ clean_pc[t] \in Raised
            /\ make' = "raised"
            /\ raised' = [target |-> t, error |-> clean_pc[t]]
       \/ /\ \A t \in tasks : clean_pc[t] = "ok"
          /\ make' = "returned"
          /\ raised' = raised
    /\ UNCHANGED <<config, fs, now, loop, callers, run, env, opts, last_built,
                   added, driver, required_targets, targets, tasks, log>>
    /\ UNCHANGED beyond_build
    /\ UNCHANGED setup

\* Something else than clean removes a file of the build directory.
Vanish(f) ==
    /\ env < MaxEnv
    /\ f \in present
    /\ env' = env + 1
    /\ present' = present \ {f}
    /\ mtime' = [mtime EXCEPT ![f] = 0]
    /\ UNCHANGED <<config, now, loop, callers, run, opts, last_built, added,
                   maker>>
    /\ UNCHANGED beyond_build
    /\ UNCHANGED setup

\* ---------------------------------------------------------------- install
InstallRunning == {"start", "await_build", "open"}
NoInstallPc == [t \in Targets |-> "none"]
NoInstalled == [t \in Targets |-> {}]
InstallModes == {"user", "dev"}

\* Target.utils, lines 450-455: the utilities declared by the class of the
\* target; gen and lib declare one.
utils(t) == IF t \in {"gen", "lib"} THEN {"utility"} ELSE {}

\* Line 405-406: settings.libraries_destination / 'pymake' / f'{self.name}.py'
filepath(t) == <<"libraries_destination", "pymake", t>>

\* A caller (Make.install, another target) calls install of a target; the
\* method is cached.
InstallCall(t) ==
    /\ calls < MaxCalls
    /\ Idle
    /\ install_pc[t] = "none"
    /\ install_pc' = [install_pc EXCEPT ![t] = "start"]
    /\ calls' = calls + 1
    /\ UNCHANGED <<config, fs, now, loop, waiting, observed, run, env, opts,
                   last_built, added, maker, installed_files, placed, mode>>
    /\ UNCHANGED <<cleaner, manifests, tester, registry, toolchain>>
    /\ UNCHANGED setup

\* install writes the utilities without awaiting build.
InstallStartWithoutBuild(t) ==
    /\ install_pc[t] = "start"
    /\ install_pc' = [install_pc EXCEPT ![t] =
                        IF mode = "dev" /\ Cardinality(utils(t)) > 0
                        THEN "open" ELSE "returned"]
    /\ UNCHANGED <<config, fs, now, loop, callers, run, env, opts, last_built,
                   added, maker, installed_files, placed, mode>>
    /\ UNCHANGED <<cleaner, manifests, tester, registry, toolchain>>
    /\ UNCHANGED setup

\* Target.install, line 396: build is awaited.
InstallStart(t) ==
    /\ install_pc[t] = "start"
    /\ install_pc' = [install_pc EXCEPT ![t] = "await_build"]
    /\ pc' = Invoke(pc, {t}, "build")
    /\ UNCHANGED <<config, fs, now, ran, cwd, saved_cwd, callers, run, env,
                   opts, last_built, added, maker, installed_files, placed,
                   mode>>
    /\ UNCHANGED <<cleaner, manifests, tester, registry, toolchain>>
    /\ UNCHANGED setup

\* Target.install, lines 396-408 and 411: a failed build is raised again; else
\* the list of installed files is empty, and returned as it is unless the mode
\* is dev and the target has utilities, in which case their file is opened.
InstallResume(t) ==
    /\ install_pc[t] = "await_build"
    /\ pc[t]["build"] \in Finished
    /\ install_pc' = [install_pc EXCEPT ![t] =
                        IF pc[t]["build"] \in Raised THEN pc[t]["build"]
                        ELSE IF mode = "dev" /\ Cardinality(utils(t)) > 0
                             THEN "open" ELSE "returned"]
    /\ installed_files' = [installed_files EXCEPT ![t] = {}]
    /\ UNCHANGED <<config, fs, now, loop, callers, run, env, opts, last_built,
                   added, maker, placed, mode>>
    /\ UNCHANGED <<cleaner, manifests, tester, registry, toolchain>>
    /\ UNCHANGED setup

\* Target.install, lines 408-411: the utilities are written, their file is
\* appended to the list, the list is returned.
InstallWrite(t) ==
    /\ install_pc[t] = "open"
    /\ Idle
    /\ placed' = [placed EXCEPT ![t] = @ \cup {filepath(t)}]
    /\ installed_files' = [installed_files EXCEPT ![t] = @ \cup {filepath(t)}]
    /\ install_pc' = [install_pc EXCEPT ![t] = "returned"]
    /\ UNCHANGED <<config, fs, now, loop, callers, run, env, opts, last_built,
                   added, maker, mode>>
    /\ UNCHANGED <<cleaner, manifests, tester, registry, toolchain>>
    /\ UNCHANGED setup

\* --------------------------------------------------------------- manifest
\* Paths are sequences of components.  The files targets install:
InstalledPaths == {<<"d", "bin", "exe">>, <<"d", "lib", "a">>}

\* settings.install.data_destination / 'dan': where the manifest is written.
manifest_parent == <<"d", "share", "dan">>

\* What install of a target returns: a list whose elements are paths and
\* lists.  Sized(n) are the lists of at most n paths and lists in all.
File(p) == [path |-> p]
List(l) == [list |-> l]
RECURSIVE Sized(_)
Sized(n) ==
    IF n = 0 THEN {<<>>}
    ELSE {<<>>} \cup UNION {
            {<<x>> \o rest :
                x \in {File(p) : p \in InstalledPaths}
                        \cup {List(l) : l \in Sized(k - 1)},
                rest \in Sized(n - k)} : k \in 1..n}

\* What gather of the install tasks returns: one list per installed target.
Gathered ==
    {g \in Sized(MaxNodes) :
        Len(g) > 0 /\ \A i \in 1..Len(g) : "list" \in DOMAIN g[i]}

\* isinstance(x, Iterable): a list is, a path is not.
Iterable(x) == "list" \in DOMAIN x

\* flatten stops at the first element.
RECURSIVE flatten_first(_)
flatten_first(list_of_lists) ==
    IF Len(list_of_lists) = 0 THEN list_of_lists
    ELSE IF Iterable(list_of_lists[1])
         THEN flatten_first(list_of_lists[1].list)
         ELSE SubSeq(list_of_lists, 1, 1)

\* flatten, lines 35-40
RECURSIVE flatten(_)
flatten(list_of_lists) ==
    IF Len(list_of_lists) = 0 THEN list_of_lists
    ELSE IF Iterable(list_of_lists[1])
         THEN flatten(list_of_lists[1].list) \o flatten(Tail(list_of_lists))
         ELSE SubSeq(list_of_lists, 1, 1) \o flatten(Tail(list_of_lists))

\* unique: the elements in the order of their first occurrence, each once.
RECURSIVE unique(_)
unique(l) ==
    IF Len(l) = 0 THEN l
    ELSE LET rest == unique(SubSeq(l, 1, Len(l) - 1))
             last == l[Len(l)]
         IN IF \E i \in 1..Len(rest) : rest[i] = last
            THEN rest ELSE Append(rest, last)

\* The length of the longest common prefix of two paths.
RECURSIVE common(_, _)
common(p, q) ==
    IF Len(p) = 0 \/ Len(q) = 0 \/ Head(p) # Head(q) THEN 0
    ELSE 1 + common(Tail(p), Tail(q))

\* os.path.relpath(p, start): one ".." per component of start below the
\* common prefix, then the components of p below it.
relpath(p, start) ==
    [i \in 1..(Len(start) - common(p, start)) |-> ".."]
        \o SubSeq(p, common(p, start) + 1, Len(p))

\* Make.install, lines 379-387: the gathered lists are flattened and
\* deduplicated, and one line per file is written to the manifest.
MakeInstall ==
    /\ ~manifest.written
    /\ manifest' = [written |-> TRUE,
                    lines |-> LET files == unique(flatten(gathered_files))
                              IN [i \in 1..Len(files) |->
                                    relpath(files[i].path, manifest_parent)
                                        \o <<"\n">>]]
    /\ UNCHANGED <<config, fs, now, loop, callers, run, env, opts, last_built,
                   added, maker, gathered_files>>
    /\ UNCHANGED <<cleaner, installer, tester, registry, toolchain>>
    /\ UNCHANGED setup

\* ------------------------------------------------------------------- test
Tests == {"t1", "t2", "t3"}
ExitCodes == 0..MaxExitCode
NotRun == -1

\* A test passes whatever its exit code.
test_call_passed(rc) == TRUE

\* Test.__call__, lines 35-38: False when rc is not 0, True otherwise.
test_call(rc) == IF rc # 0 THEN FALSE ELSE TRUE

\* A selected test runs its executable (Test.__call__, line 29:
\* executable.execute with no_raise), which exits with some code.
RunTest(t) ==
    /\ t \in tests
    /\ exit_code[t] = NotRun
    /\ \E rc \in ExitCodes : exit_code' = [exit_code EXCEPT ![t] = rc]
    /\ UNCHANGED <<config, fs, now, loop, callers, run, env, opts, last_built,
                   added, maker, tests, test_result>>
    /\ UNCHANGED <<cleaner, installer, manifests, registry, toolchain>>
    /\ UNCHANGED setup

\* Make.test, lines 412-419: the results of the selected tests are gathered;
\* 0 when all of them are true, 255 otherwise.
MakeTest ==
    /\ test_result = NotRun
    /\ \A t \in tests : exit_code[t] # NotRun
    /\ test_result' = IF \A t \in tests : test_call(exit_code[t])
                      THEN 0 ELSE 255
    /\ UNCHANGED <<config, fs, now, loop, callers, run, env, opts, last_built,
                   added, maker, tests, exit_code>>
    /\ UNCHANGED <<cleaner, installer, manifests, registry, toolchain>>
    /\ UNCHANGED setup

\* --------------------------------------------------------------- register
\* Target classes and the name each declares: Exe and Tool are both named exe.
Classes == {"Gen", "Lib", "Exe", "Tool"}
class_name(cls) ==
    CASE cls = "Gen" -> "gen"
      [] cls = "Lib" -> "lib"
      [] cls \in {"Exe", "Tool"} -> "exe"

\* dan's MakeFile.register, lines 48-63: the class is instantiated and the
\* instance added to the targets of the makefile.  pymake's MakeFile.register,
\* lines 43-48: the class itself is added.
register(R, m, cls, n) ==
    IF driver = "dan.make"
    THEN R \cup {[makefile |-> m, cls |-> cls, instance |-> n]}
    ELSE R \cup {[makefile |-> m, cls |-> cls, instance |-> 0]}

Register(m, cls) ==
    /\ registrations < MaxRegistrations
    /\ registrations' = registrations + 1
    /\ registered' = register(registered, m, cls, registrations + 1)
    /\ UNCHANGED <<config, fs, now, loop, callers, run, env, opts, last_built,
                   added, maker>>
    /\ UNCHANGED <<cleaner, installer, manifests, tester, toolchain>>
    /\ UNCHANGED setup

\* -------------------------------------------------------------- toolchain
Kinds == {"compile", "link", "static_lib", "shared_lib"}
NoStep == [kind |-> "none", commands |-> 0, index |-> 0, status |-> "none",
           enabled |-> FALSE]
NoToolchainFailure ==
    [class |-> "none", command |-> -1, stdout |-> <<>>, stderr |-> <<>>,
     diags |-> 0, toolchain |-> "none"]

\* What a process writes to its standard output and standard error.
stdout(kind, index) == <<kind, index, "stdout">>
stderr(kind, index) == <<kind, index, "stderr">>

\* A step of the toolchain is called: make_compile_commands,
\* make_link_commands, make_static_lib_commands or make_shared_lib_commands
\* generates its commands; compile and link collect diagnostics when
\* diag.enabled (lines 277-282, 296-301).
ToolchainCall(kind, n, enabled) ==
    /\ step.status = "none"
    /\ step' = [kind |-> kind, commands |-> n, index |-> 0,
                status |-> "running",
                enabled |-> enabled /\ kind \in {"compile", "link"}]
    /\ UNCHANGED <<config, fs, now, loop, callers, run, env, opts, last_built,
                   added, maker, ran_commands, diags, failure, spawned, probed>>
    /\ UNCHANGED <<cleaner, installer, manifests, tester, registry>>
    /\ UNCHANGED setup

\* Every step raises LinkageFailure.
raises_linkage(kind) == "LinkageFailure"

\* What a step raises when a command of it fails: compile line 287, link line
\* 306, static_lib line 319; shared_lib (lines 327-328) does not catch the
\* CommandError of run.
raises(kind) ==
    CASE kind = "compile" -> "CompilationFailure"
      [] kind = "link" -> "LinkageFailure"
      [] kind = "static_lib" -> "LinkageFailure"
      [] kind = "shared_lib" -> "CommandError"

\* The exception of a step whose command index failed: BaseFailure.__init__,
\* lines 73-81; static_lib passes no diagnostics; a CommandError carries the
\* output of the process only.
raise_failure(kind, index, collected) ==
    [class |-> raises(kind),
     command |-> IF raises(kind) = "CommandError" THEN -1 ELSE index,
     stdout |-> stdout(kind, index),
     stderr |-> stderr(kind, index),
     diags |-> IF kind \in {"compile", "link"} THEN collected ELSE 0,
     toolchain |-> IF raises(kind) = "CommandError" THEN "none" ELSE "self"]

\* The loop over the commands (lines 283-287, 302-306, 315-319, 327-328): the
\* next command is run; its output may hold a diagnostic, collected when
\* enabled; a non-zero exit makes run raise CommandError, which ends the step.
ToolchainRun ==
    /\ step.status = "running"
    /\ step.index < step.commands
    /\ \E rc \in 0..1, d \in 0..1 :
        LET collected == IF step.enabled THEN diags + d ELSE diags
        IN /\ ran_commands' = Append(ran_commands,
                                     [command |-> step.index, rc |-> rc])
           /\ diags' = collected
           /\ IF rc # 0
              THEN /\ failure' = raise_failure(step.kind, step.index, collected)
                   /\ step' = [step EXCEPT !.status = "raised"]
              ELSE /\ failure' = failure
                   /\ step' = [step EXCEPT
                                !.index = @ + 1,
                                !.status = IF step.index + 1 = step.commands
                                           THEN "returned" ELSE "running"]
    /\ UNCHANGED <<config, fs, now, loop, callers, run, env, opts, last_built,
                   added, maker, spawned, probed>>
    /\ UNCHANGED <<cleaner, installer, manifests, tester, registry>>
    /\ UNCHANGED setup

\* Probes: a source the compiler accepts and one it rejects.
Sources == {"valid", "invalid"}
Probes == {"can_compile", "has_include", "has_definition"}
ProbeInputs == Probes \X Sources

\* The exit code of the compiler on a source: the same all along a run.
compiler(source) == IF source = "valid" THEN 0 ELSE 1

\* can_compile, lines 338-344: the source is written to a temporary file, the
\* first compile command is run on it, the result is rc == 0.  has_include
\* (lines 346-348) and has_definition (lines 350-354) make a source of their
\* arguments and call can_compile.
Probe(input) ==
    /\ spawned[input] < MaxProbes
    /\ spawned' = [spawned EXCEPT ![input] = @ + 1]
    /\ probed' = [probed EXCEPT ![input] = Append(@, compiler(input[2]) = 0)]
    /\ UNCHANGED <<config, fs, now, loop, callers, run, env, opts, last_built,
                   added, maker, step, ran_commands, diags, failure>>
    /\ UNCHANGED <<cleaner, installer, manifests, tester, registry>>
    /\ UNCHANGED setup

\* ------------------------------------------------------------ environment
Quiescent ==
    /\ \A t \in Targets, op \in Ops :
        pc[t][op] \notin Running /\ waiting[t][op] = 0
    /\ \A t \in Targets :
        clean_pc[t] \notin CleanRunning /\ install_pc[t] \notin InstallRunning
    /\ make \in {"none", "returned", "raised"}

\* The files the build reads or writes.
BuildFiles == {t \in Targets : output[t] # NoOutput} \cup SourceFiles

\* A file is written by something else than the build.
Touch(f) ==
    /\ Fresh
    /\ env < MaxEnv /\ now < MaxTime
    /\ env' = env + 1
    /\ now' = now + 1
    /\ present' = present \cup {f}
    /\ mtime' = [mtime EXCEPT ![f] = now + 1]
    /\ UNCHANGED <<config, loop, callers, run, opts, last_built, added,
                   maker>>
    /\ UNCHANGED beyond_build
    /\ UNCHANGED setup

Delete(f) ==
    /\ Fresh
    /\ env < MaxEnv
    /\ f \in present
    /\ env' = env + 1
    /\ present' = present \ {f}
    /\ mtime' = [mtime EXCEPT ![f] = 0]
    /\ UNCHANGED <<config, now, loop, callers, run, opts, last_built, added,
                   maker>>
    /\ UNCHANGED beyond_build
    /\ UNCHANGED setup

\* A file is replaced by an old copy that keeps its time (cp -p, tar x).
Backdate(f) ==
    /\ Fresh
    /\ env < MaxEnv
    /\ f \in present
    /\ mtime[f] > 0
    /\ env' = env + 1
    /\ mtime' = [mtime EXCEPT ![f] = 0]
    /\ UNCHANGED <<config, present, now, loop, callers, run, opts, last_built,
                   added, maker>>
    /\ UNCHANGED beyond_build
    /\ UNCHANGED setup

\* Option.value setter, lines 129-134: a value that differs is stored.
SetOption(v) ==
    /\ Fresh
    /\ env < MaxEnv /\ now < MaxTime
    /\ option # v
    /\ option' = v
    /\ options_changed' = now + 1
    /\ now' = now + 1
    /\ env' = env + 1
    /\ UNCHANGED <<config, fs, loop, callers, run, last_built, added, maker>>
    /\ UNCHANGED beyond_build
    /\ UNCHANGED setup

\* The process ends and a new one starts on the same build directory: the
\* targets are constructed again, nothing is memoised.

Restart ==
    /\ run < MaxRuns
    /\ Quiescent
    /\ pc # NoPc
    /\ run' = run + 1
    /\ pc' = NoPc
    /\ ran' = NoRan
    /\ waiting' = NoWaiting
    /\ observed' = NoObserved
    /\ calls' = 0
    /\ cwd' = "cwd"
    /\ saved_cwd' = NoSaved
    /\ targets' = {}
    /\ tasks' = {}
    /\ make' = "none"
    /\ raised' = NoFailure
    /\ clean_pc' = NoCleanPc
    /\ scheduled' = NoScheduled
    /\ install_pc' = NoInstallPc
    /\ installed_files' = NoInstalled
    /\ UNCHANGED <<config, fs, now, env, opts, last_built, added, driver,
                   required_targets, log, placed, mode>>
    /\ UNCHANGED <<manifests, tester, registry, toolchain>>
    /\ UNCHANGED setup

\* -------------------------------------------------------- compile commands
\* pymake/cxx/toolchain.py: CompileCommands. A path is its directory and its
\* name; str(path) is the whole path, path.name is the path of its last
\* component alone.
Paths ==
    { [dir |-> "", name |-> "a.cpp"],
      [dir |-> "src", name |-> "a.cpp"],
      [dir |-> "src", name |-> "b.cpp"] }

BuildPaths == {"build"}

\* What is inserted: a list of arguments (stored under 'args') or a command
\* line (stored under 'command').
Contents == [key : {"args", "command"}, value : {"v1", "v2"}]

Absent == "absent"

str(file) == file

basename(file) == [dir |-> "", name |-> file.name]

\* CompileCommands.get: the index of the first entry whose 'file' is the
\* name of the file, 0 for None.
get(file) ==
    LET fname == basename(file)
        hits == { i \in 1..Len(data) : data[i].file = fname }
    IN  IF hits = {} THEN 0 ELSE CHOOSE i \in hits : \A j \in hits : i <= j

\* CompileCommands.insert: the entry found by get has its key assigned, and
\* without one an entry is appended.
Insert(file, directory, content) ==
    LET entry == get(file)
        key == content.key
    IN  /\ entry # 0 \/ Len(data) < MaxEntries
        /\ data' =
              IF entry # 0
              THEN [data EXCEPT ![entry] = [@ EXCEPT ![key] = content.value]]
              ELSE Append(data,
                          [[file |-> str(file),
                            directory |-> directory,
                            args |-> Absent,
                            command |-> Absent] EXCEPT ![key] = content.value])
        /\ UNCHANGED <<config, fs, now, loop, callers, run, env, opts,
                       last_built, added, maker>>
        /\ UNCHANGED beyond_build
        /\ UNCHANGED <<contexts, tree, configure, lst>>

NoCompileCommands == data = <<>>

\* ---------------------------------------------------------------- contexts
\* dan/core/include.py: the global context, Context as a with-block, and the
\* loading of a makefile inside Context._init_makefile.
Contexts == {"default", "ctx"}

Last(s) == s[Len(s)]

Front(s) == SubSeq(s, 1, Len(s) - 1)

\* What the claims call the activation: the active context and the
\* current-makefile stacks.
Activation == [context |-> context, makefile_stack |-> makefile_stack]

Scope(kind, self) == [kind |-> kind, self |-> self, before |-> Activation]

Released(scope, raising, ctx, stack) ==
    [kind |-> scope.kind, raising |-> raising, before |-> scope.before,
     after |-> [context |-> ctx, makefile_stack |-> stack]]

\* Context.__enter__: the active context is saved on the stack of the
\* entered one, which becomes the active context.
ContextEnter(self) ==
    /\ Len(scopes) < MaxDepth
    /\ ctx_stack' = [ctx_stack EXCEPT ![self] = Append(@, context)]
    /\ context' = self
    /\ scopes' = Append(scopes, Scope("context", self))
    /\ UNCHANGED <<makefile_stack, released, imported_makefiles>>
    /\ UNCHANGED <<config, fs, now, loop, callers, run, env, opts,
                   last_built, added, maker>>
    /\ UNCHANGED beyond_build
    /\ UNCHANGED <<data, tree, configure, lst>>

\* Context.__exit__, which the with statement calls when its body returns
\* and when it raises: the saved context is active again.
ContextExit(raising) ==
    /\ scopes # <<>>
    /\ Last(scopes).kind = "context"
    /\ LET self == Last(scopes).self
           saved == Last(ctx_stack[self])
       IN  /\ context' = saved
           /\ ctx_stack' = [ctx_stack EXCEPT ![self] = Front(@)]
           /\ released' = Released(Last(scopes), raising, saved,
                                   makefile_stack)
    /\ scopes' = Front(scopes)
    /\ UNCHANGED <<makefile_stack, imported_makefiles>>
    /\ UNCHANGED <<config, fs, now, loop, callers, run, env, opts,
                   last_built, added, maker>>
    /\ UNCHANGED beyond_build
    /\ UNCHANGED <<data, tree, configure, lst>>

\* load_makefile up to the execution of the module: a makefile already
\* imported is returned as it is; another one is recorded as imported and
\* Context._init_makefile pushes it on the stack of the active context.
LoadMakefile(module) ==
    /\ Len(scopes) < MaxDepth
    /\ module \notin imported_makefiles[context]
    /\ imported_makefiles' =
          [imported_makefiles EXCEPT ![context] = @ \cup {module}]
    /\ makefile_stack' = [makefile_stack EXCEPT ![context] = Append(@, module)]
    /\ scopes' = Append(scopes, Scope("makefile", context))
    /\ UNCHANGED <<context, ctx_stack, released>>
    /\ UNCHANGED <<config, fs, now, loop, callers, run, env, opts,
                   last_built, added, maker>>
    /\ UNCHANGED beyond_build
    /\ UNCHANGED <<data, tree, configure, lst>>

\* The module was executed: Context._init_makefile resumes after its yield
\* and pops the stack.
LoadReturn ==
    /\ scopes # <<>>
    /\ Last(scopes).kind = "makefile"
    /\ LET self == Last(scopes).self
           popped == [makefile_stack EXCEPT ![self] = Front(@)]
       IN  /\ makefile_stack' = popped
           /\ released' = Released(Last(scopes), FALSE, context, popped)
    /\ scopes' = Front(scopes)
    /\ UNCHANGED <<context, ctx_stack, imported_makefiles>>
    /\ UNCHANGED <<config, fs, now, loop, callers, run, env, opts,
                   last_built, added, maker>>
    /\ UNCHANGED beyond_build
    /\ UNCHANGED <<data, tree, configure, lst>>

\* The execution of the module raised: the exception is raised inside
\* Context._init_makefile at its yield, which nothing there catches, so the
\* statement after the yield is not executed, and load_makefile raises
\* MakeFileError.
LoadRaise ==
    /\ scopes # <<>>
    /\ Last(scopes).kind = "makefile"
    /\ released' = Released(Last(scopes), TRUE, context, makefile_stack)
    /\ scopes' = Front(scopes)
    /\ UNCHANGED <<context, ctx_stack, makefile_stack, imported_makefiles>>
    /\ UNCHANGED <<config, fs, now, loop, callers, run, env, opts,
                   last_built, added, maker>>
    /\ UNCHANGED beyond_build
    /\ UNCHANGED <<data, tree, configure, lst>>

NoContext ==
    /\ context = "default"
    /\ ctx_stack = [c \in Contexts |-> <<>>]
    /\ makefile_stack = [c \in Contexts |-> <<>>]
    /\ imported_makefiles = [c \in Contexts |-> {}]
    /\ scopes = <<>>
    /\ released = [kind |-> "none", raising |-> FALSE,
                   before |-> [context |-> "default",
                               makefile_stack |-> [c \in Contexts |-> <<>>]],
                   after |-> [context |-> "default",
                              makefile_stack |-> [c \in Contexts |-> <<>>]]]

\* ------------------------------------------------------------ makefile tree
\* dan/core/makefile.py: the targets and the tests of each makefile, the
\* reads of all_targets and all_tests, and find.  An object is known by the
\* makefile it was registered on and by its name.
Names == {"gen", "lib"}

NoTarget == [makefile |-> "none", name |-> "none"]

parent(m) == IF m = "s" THEN "r" ELSE "none"

\* MakeFile.register, lines 50-63: an instance of the class is added to the
\* targets when the class is a Target, to the tests when it is a Test.  Each
\* class is registered once, on one makefile.
TreeRegister(m, kind, n) ==
    LET t == [makefile |-> m, name |-> n]
    IN  /\ t \notin node_targets[m] \cup node_tests[m]
        /\ node_targets' = IF kind = "Target"
                           THEN [node_targets EXCEPT ![m] = @ \cup {t}]
                           ELSE node_targets
        /\ node_tests' = IF kind = "Test"
                         THEN [node_tests EXCEPT ![m] = @ \cup {t}]
                         ELSE node_tests
        /\ UNCHANGED <<find_cache, find_result>>
        /\ UNCHANGED <<config, fs, now, loop, callers, run, env, opts,
                       last_built, added, maker>>
        /\ UNCHANGED beyond_build
        /\ UNCHANGED <<data, contexts, configure, lst>>

\* MakeFile.all_targets, lines 136-141, and all_tests, lines 147-152, on the
\* sets S of the makefiles: the set of the makefile itself is updated with
\* what the read of each child returns, and returned.
RECURSIVE update_all(_, _, _)
RECURSIVE read_all(_, _)
update_all(S, m, cs) ==
    IF cs = {} THEN S
    ELSE LET c == CHOOSE x \in cs : TRUE
             read == read_all(S, c)
         IN  update_all([read EXCEPT ![m] = @ \cup read[c]], m, cs \ {c})

read_all(S, m) == update_all(S, m, children(m))

AllTargets(m) ==
    /\ node_targets' = read_all(node_targets, m)
    /\ node_targets' # node_targets
    /\ UNCHANGED <<node_tests, find_cache, find_result>>
    /\ UNCHANGED <<config, fs, now, loop, callers, run, env, opts,
                   last_built, added, maker>>
    /\ UNCHANGED beyond_build
    /\ UNCHANGED <<data, contexts, configure, lst>>

AllTests(m) ==
    /\ node_tests' = read_all(node_tests, m)
    /\ node_tests' # node_tests
    /\ UNCHANGED <<node_targets, find_cache, find_result>>
    /\ UNCHANGED <<config, fs, now, loop, callers, run, env, opts,
                   last_built, added, maker>>
    /\ UNCHANGED beyond_build
    /\ UNCHANGED <<data, contexts, configure, lst>>

\* functools.cache on MakeFile.__find: one result per makefile and argument,
\* computed by the first call and returned by every later one.
NotCached == [cached |-> FALSE, result |-> NoTarget]

store(cache, m, n, t) ==
    [cache EXCEPT ![m][n] = [cached |-> TRUE, result |-> t]]

\* MakeFile.__find, lines 77-91: a target of the makefile whose name is the
\* argument (any one of them, the targets being a set), else the first
\* result of the children that is not None, else None.  The outcomes are the
\* possible results, each with the cache it leaves.
RECURSIVE private_find(_, _, _)
RECURSIVE find_in_children(_, _, _)
find_in_children(cache, cs, n) ==
    IF cs = {} THEN {[result |-> NoTarget, cache |-> cache]}
    ELSE LET c == CHOOSE x \in cs : TRUE
         IN  UNION { IF o.result # NoTarget THEN {o}
                     ELSE find_in_children(o.cache, cs \ {c}, n)
                     : o \in private_find(cache, c, n) }

private_find(cache, m, n) ==
    IF cache[m][n].cached
    THEN {[result |-> cache[m][n].result, cache |-> cache]}
    ELSE LET own == { t \in node_targets[m] : t.name = n }
         IN  IF own # {}
             THEN { [result |-> t, cache |-> store(cache, m, n, t)]
                    : t \in own }
             ELSE { [result |-> o.result,
                     cache |-> store(o.cache, m, n, o.result)]
                    : o \in find_in_children(cache, children(m), n) }

\* MakeFile.find, lines 93-107: the result of __find, and when it is None the
\* result of the parent's find.
RECURSIVE makefile_find(_, _, _)
makefile_find(cache, m, n) ==
    UNION { IF o.result # NoTarget \/ parent(m) = "none" THEN {o}
            ELSE makefile_find(o.cache, parent(m), n)
            : o \in private_find(cache, m, n) }

Find(m, n) ==
    /\ \E o \in makefile_find(find_cache, m, n) :
          /\ find_cache' = o.cache
          /\ find_result' = [called |-> TRUE, makefile |-> m, name |-> n,
                       result |-> o.result]
    /\ find_result' # find_result \/ find_cache' # find_cache
    /\ UNCHANGED <<node_targets, node_tests>>
    /\ UNCHANGED <<config, fs, now, loop, callers, run, env, opts,
                   last_built, added, maker>>
    /\ UNCHANGED beyond_build
    /\ UNCHANGED <<data, contexts, configure, lst>>

NoTree ==
    /\ node_targets = [m \in MakeFiles |-> {}]
    /\ node_tests = [m \in MakeFiles |-> {}]
    /\ find_cache = [m \in MakeFiles |-> [n \in Names |-> NotCached]]
    /\ find_result = [called |-> FALSE, makefile |-> "r", name |-> "gen",
                result |-> NoTarget]

\* ---------------------------------------------------------------- configure
\* dan/make.py: Make.initialize, which is memoized, the start of Make.install,
\* and the overrides of settings.  The library destination of the
\* installation is one path.
library_dest == "install/lib"

NoRpath == "none"

\* Make.initialize, lines 120-144, under asyncio.cached: the first call
\* executes it, and sets the rpath of the target toolchain when the Make is
\* for an installation; a later call returns what the first one returned.
initialize(r) ==
    IF ~initialized /\ for_install THEN library_dest ELSE r

Initialize ==
    /\ ~initialized
    /\ installing = "none"
    /\ initialized' = TRUE
    /\ rpath' = initialize(rpath)
    /\ UNCHANGED <<for_install, installing, settings, applied>>
    /\ UNCHANGED <<config, fs, now, loop, callers, run, env, opts,
                   last_built, added, maker>>
    /\ UNCHANGED beyond_build
    /\ UNCHANGED <<data, contexts, tree, lst>>

\* Make.install, lines 369-374: initialize, then for_install is set, then
\* initialize again; the targets are built next.
InstallInitialize ==
    /\ installing = "none"
    /\ initialized' = TRUE
    /\ for_install' = TRUE
    /\ rpath' = initialize(rpath)
    /\ installing' = "build"
    /\ UNCHANGED <<settings, applied>>
    /\ UNCHANGED <<config, fs, now, loop, callers, run, env, opts,
                   last_built, added, maker>>
    /\ UNCHANGED beyond_build
    /\ UNCHANGED <<data, contexts, tree, lst>>

\* Make.install, lines 376-381: the targets are built, with the toolchain as
\* it is, and installed.
InstallBuild ==
    /\ installing = "build"
    /\ installing' = "installed"
    /\ UNCHANGED <<for_install, initialized, rpath, settings, applied>>
    /\ UNCHANGED <<config, fs, now, loop, callers, run, env, opts,
                   last_built, added, maker>>
    /\ UNCHANGED beyond_build
    /\ UNCHANGED <<data, contexts, tree, lst>>

\* The inputs are strings, sequences of characters.  The settings are s, a
\* set of strings, and l, a list of strings.
Items == {<<"s">>, <<"l">>}

annotation(item) == IF item = <<"s">> THEN "set" ELSE "list"

Assignments == {<<"+", "=">>, <<"-", "=">>, <<"=">>}

Values == {<<"a">>, <<"b">>, <<"a", ";", "b">>, <<"*">>}

Malformed == {<<"s">>, <<"s", "+", "a">>, <<"l", "-">>, <<"l", "=">>}

SettingInputs ==
    {n \o a \o v : n \in Items, a \in Assignments, v \in Values}
        \cup Malformed

Quote == "\""

Rest(s, k) == SubSeq(s, k + 1, Len(s))

NoReMatch == [ok |-> FALSE, name |-> <<>>, op |-> "", value |-> <<>>]

\* What follows the name in the pattern of line 234: an optional + or -,
\* the equal sign, an optional quote, and one character or more.
assignment(r) ==
    LET unquoted(v) == IF Len(v) >= 2 /\ v[1] = Quote THEN Rest(v, 1) ELSE v
    IN  IF Len(r) >= 3 /\ r[1] \in {"+", "-"} /\ r[2] = "="
        THEN [ok |-> TRUE, op |-> r[1], value |-> unquoted(Rest(r, 2))]
        ELSE IF Len(r) >= 2 /\ r[1] = "="
        THEN [ok |-> TRUE, op |-> "", value |-> unquoted(Rest(r, 1))]
        ELSE [ok |-> FALSE, op |-> "", value |-> <<>>]

\* re.match of the pattern: the name is the shortest prefix, of one character
\* or more, that an assignment follows.
re_match(input) ==
    LET ks == { k \in 1..Len(input) : assignment(Rest(input, k)).ok }
    IN  IF ks = {} THEN NoReMatch
        ELSE LET k == CHOOSE i \in ks : \A j \in ks : i <= j
                 a == assignment(Rest(input, k))
             IN  [ok |-> TRUE, name |-> SubSeq(input, 1, k), op |-> a.op,
                  value |-> a.value]

\* str.split(';')
RECURSIVE split(_)
split(value) ==
    LET at == { i \in 1..Len(value) : value[i] = ";" }
    IN  IF at = {} THEN <<value>>
        ELSE LET i == CHOOSE x \in at : \A y \in at : x <= y
             IN  <<SubSeq(value, 1, i - 1)>> \o split(Rest(value, i))

Range(s) == { s[i] : i \in 1..Len(s) }

\* The value of a setting: a set or a list of strings.
SetValue(S) == [type |-> "set", set |-> S, list |-> <<>>]

ListValue(l) == [type |-> "list", set |-> {}, list |-> l]

\* Make._parse_str_value, lines 210-229, for a set or a list of strings.
parse_str_value(value, orig) ==
    IF orig = "set" THEN SetValue(Range(split(value)))
    ELSE ListValue(split(value))

\* The match statement of lines 257-272 on the value of the item, the
\* operator and the parsed value.
apply(out_value, op, in_value) ==
    LET star == IF in_value.type = "set" THEN in_value.set = {<<"*">>}
                ELSE in_value.list = <<(<<"*">>)>>
    IN  CASE op = "-" /\ star ->
               [raised |-> "none",
                value |-> IF out_value.type = "set" THEN SetValue({})
                          ELSE ListValue(<<>>)]
          [] op = "+" /\ out_value.type = "set" /\ in_value.type = "set" ->
               [raised |-> "none",
                value |-> SetValue(out_value.set \cup in_value.set)]
          [] op = "-" /\ ~star /\ out_value.type = "set"
                      /\ in_value.type = "set" ->
               [raised |-> "none",
                value |-> SetValue(out_value.set \ in_value.set)]
          [] op \in {"+", "-"} /\ ~(op = "-" /\ star)
                      /\ ~(out_value.type = "set" /\ in_value.type = "set") ->
               \* a list item has a list as its parsed value, which the
               \* cases for a list item and a set do not match
               [raised |-> "TypeError", value |-> out_value]
          [] OTHER ->
               [raised |-> "none", value |-> in_value]

\* Make._apply_inputs, lines 232-279, for one input on the settings S.
apply_input(S, input) ==
    LET m == re_match(input)
    IN  IF ~m.ok THEN [raised |-> "RuntimeError", settings |-> S]
        ELSE IF m.name \notin Items
        THEN [raised |-> "RuntimeError", settings |-> S]
        ELSE LET orig == annotation(m.name)
                 in_value == parse_str_value(m.value, orig)
                 done == apply(S[m.name], m.op, in_value)
             IN  IF done.raised # "none"
                 THEN [raised |-> done.raised, settings |-> S]
                 ELSE [raised |-> "none",
                       settings |-> [S EXCEPT ![m.name] = done.value]]

\* Make.apply_settings, lines 291-304, with one setting.
ApplySettings(input) ==
    /\ installing = "none"
    /\ initialized' = TRUE
    /\ rpath' = initialize(rpath)
    /\ LET done == apply_input(settings, input)
       IN  /\ settings' = done.settings
           /\ applied' = [input |-> input, raised |-> done.raised,
                          before |-> settings]
    /\ UNCHANGED <<for_install, installing>>
    /\ UNCHANGED <<config, fs, now, loop, callers, run, env, opts,
                   last_built, added, maker>>
    /\ UNCHANGED beyond_build
    /\ UNCHANGED <<data, contexts, tree, lst>>

NoSettings == [i \in Items |-> IF i = <<"s">> THEN SetValue({}) ELSE ListValue(<<>>)]

NoConfigure ==
    /\ for_install = FALSE
    /\ initialized = FALSE
    /\ rpath = NoRpath
    /\ installing = "none"
    /\ settings = NoSettings
    /\ applied = [input |-> <<>>, raised |-> "none", before |-> NoSettings]

\* ------------------------------------------------------------- library list
\* dan/cxx/base_toolchain.py: LibraryList.
Libraries == {"a", "b", "c"}

\* The arguments of extend: the lists of at most MaxArgument libraries.
Arguments == UNION { [1..n -> Libraries] : n \in 0..MaxArgument }

\* list.remove: the list without the first occurrence of the item; the list
\* itself when the item is not in it, the ValueError being ignored.
remove(l, item) ==
    LET at == { i \in 1..Len(l) : l[i] = item }
    IN  IF at = {} THEN l
        ELSE LET i == CHOOSE x \in at : \A y \in at : x <= y
             IN  SubSeq(l, 1, i - 1) \o SubSeq(l, i + 1, Len(l))

RECURSIVE remove_each(_, _)
remove_each(l, items) ==
    IF items = <<>> THEN l
    ELSE remove_each(remove(l, Head(items)), Tail(items))

\* LibraryList.add, lines 52-54.
library_add(l, item) == IF item \in Range(l) THEN l ELSE Append(l, item)

\* LibraryList.extend, lines 56-62: each item of the argument is removed
\* once, then the argument is appended.
library_extend(l, items) == remove_each(l, items) \o items

LibraryAdd(item) ==
    /\ lst' = library_add(lst, item)
    /\ lst' # lst
    /\ UNCHANGED <<config, fs, now, loop, callers, run, env, opts,
                   last_built, added, maker>>
    /\ UNCHANGED beyond_build
    /\ UNCHANGED <<data, contexts, tree, configure>>

LibraryExtend(items) ==
    /\ lst' = library_extend(lst, items)
    /\ lst' # lst
    /\ Len(lst') <= MaxLength
    /\ UNCHANGED <<config, fs, now, loop, callers, run, env, opts,
                   last_built, added, maker>>
    /\ UNCHANGED beyond_build
    /\ UNCHANGED <<data, contexts, tree, configure>>

NoLibraries == lst = <<>>

\* ------------------------------------------------------------ specification
\* Dependency graphs: acyclic by declaration order.
TargetGraphs == {d \in [Targets -> SUBSET Targets] :
                    \A t \in Targets : d[t] \subseteq Declared[t]}

\* Only lib is possibly a target without an output.
OutputChoices == {[t \in Targets |-> IF t \in S THEN NoOutput ELSE t] :
                    S \in SUBSET {"lib"}}

\* Only exe possibly depends on a source file.
SourceChoices == {[t \in Targets |-> IF t = "exe" THEN S ELSE {}] :
                    S \in SUBSET SourceFiles}

Graph(d, s, p, o) ==
    [dependencies |-> [t \in Targets |-> d[t] \cup s[t]],
     preload_dependencies |-> p,
     output |-> o]

NoDependencies == [t \in Targets |-> {}]

\* One process run: every graph over the targets, each with an output, with at
\* most one target that has preload dependencies.
Graphs ==
    {Graph(d, NoDependencies, p, o) :
        d \in TargetGraphs,
        p \in {q \in TargetGraphs :
                Cardinality({t \in Targets : q[t] # {}}) <= 1},
        o \in {[t \in Targets |-> t]}}

\* Rebuilds: every graph of dependencies, exe possibly reading a source file.
RebuildGraphs ==
    {Graph(d, s, NoDependencies, o) :
        d \in TargetGraphs, s \in SourceChoices, o \in OutputChoices}

Outputs(g) == {t \in Targets : g.output[t] # NoOutput}

InitProcess ==
    /\ mtime = [f \in Files |-> 0]
    /\ now = 0
    /\ pc = NoPc
    /\ ran = NoRan
    /\ cwd = "cwd"
    /\ saved_cwd = NoSaved
    /\ waiting = NoWaiting
    /\ observed = NoObserved
    /\ calls = 0
    /\ run = 1
    /\ env = 0
    /\ option = FALSE
    /\ options_changed = 0
    /\ last_built = [t \in Targets |-> 0]
    /\ added = NoAdd

\* Nothing is cleaned or installed.
NoClean == clean_pc = NoCleanPc /\ scheduled = NoScheduled
NoInstall ==
    /\ install_pc = NoInstallPc
    /\ installed_files = NoInstalled
    /\ placed = NoInstalled
    /\ mode = "user"

NoManifest ==
    /\ gathered_files = <<>>
    /\ manifest = [written |-> FALSE, lines |-> <<>>]
NoTest ==
    /\ tests = {}
    /\ exit_code = [t \in Tests |-> NotRun]
    /\ test_result = NotRun
NoRegistry == registered = {} /\ registrations = 0
NoToolchain ==
    /\ step = NoStep
    /\ ran_commands = <<>>
    /\ diags = 0
    /\ failure = NoToolchainFailure
    /\ spawned = [i \in ProbeInputs |-> 0]
    /\ probed = [i \in ProbeInputs |-> <<>>]

\* Nothing was compiled, loaded, registered, configured or linked.
NoSetup ==
    /\ NoCompileCommands
    /\ NoContext
    /\ NoTree
    /\ NoConfigure
    /\ NoLibraries

\* Only builds: nothing else is asked of Make, the makefiles or the toolchain.
BuildOnly ==
    /\ NoClean /\ NoInstall /\ NoManifest /\ NoTest /\ NoRegistry
    /\ NoToolchain
    /\ NoSetup

\* No Make drives the targets.
NoMake ==
    /\ driver = "pymake.make"
    /\ required_targets = {}
    /\ targets = {}
    /\ tasks = {}
    /\ make = "none"
    /\ raised = NoFailure
    /\ log = {}

\* The build directory is empty, or holds every output (all of one age), or
\* every output but the one of exe.
Init ==
    /\ \E g \in Graphs :
        /\ dependencies = g.dependencies
        /\ preload_dependencies = g.preload_dependencies
        /\ output = g.output
        /\ present \in {SourceFiles, SourceFiles \cup Outputs(g),
                        SourceFiles \cup (Outputs(g) \ {"exe"})}
    /\ InitProcess
    /\ NoMake
    /\ BuildOnly

\* The steps of the event loop: those of the first seven lines need nothing
\* from outside the loop, the others run a hook or wait for a process.
Step ==
    \/ \E t \in Targets : PreloadStart(t)
    \/ \E t \in Targets : PreloadGroup1(t)
    \/ \E t \in Targets : InitializeStart(t)
    \/ \E t \in Targets : InitializeResume(t)
    \/ \E t \in Targets : BuildStart(t)
    \/ \E t \in Targets : BuildResume(t)
    \/ \E t \in Targets, op \in Ops : Deliver(t, op)
    \/ \E t \in Targets : PreloadGroup2(t)
    \/ \E t \in Targets : InitializeGroup(t)
    \/ \E t \in Targets : BuildGroup(t)
    \/ \E t \in Targets : BuildCheck(t)
    \/ \E t \in Targets : BuildFinish(t)

Next ==
    \/ Step
    \/ \E t \in Targets, op \in Ops : ExternalCall(t, op)

Spec == Init /\ [][Next]_vars

\* Rebuilds over several process runs: the first run starts in an empty build
\* directory, the source file written or not; between two runs files and
\* options change.
InitRebuild ==
    /\ \E g \in RebuildGraphs :
        /\ dependencies = g.dependencies
        /\ preload_dependencies = g.preload_dependencies
        /\ output = g.output
    /\ present \in SUBSET SourceFiles
    /\ InitProcess
    /\ NoMake
    /\ BuildOnly

NextRebuild ==
    \/ Step
    \/ \E t \in Targets : BuildCall(t)
    \/ \E f \in BuildFiles : Touch(f)
    \/ \E f \in BuildFiles : Delete(f)
    \/ \E f \in BuildFiles : Backdate(f)
    \/ \E v \in BOOLEAN : SetOption(v)
    \/ Restart

SpecRebuild == InitRebuild /\ [][NextRebuild]_vars

\* Targets with requirements: lib or exe, or both, require the package gen.
RequireChoices ==
    {[t \in Targets |-> IF t \in S THEN Requirements ELSE {}] :
        S \in SUBSET {"lib", "exe"} \ {{}}}

RequireGraphs ==
    {Graph(d, s, NoDependencies, o) :
        d \in TargetGraphs, s \in RequireChoices,
        o \in {[t \in Targets |-> t]}}

InitRequire ==
    /\ \E g \in RequireGraphs :
        /\ dependencies = g.dependencies
        /\ preload_dependencies = g.preload_dependencies
        /\ output = g.output
    /\ present = SourceFiles
    /\ InitProcess
    /\ NoMake
    /\ BuildOnly

\* The targets are loaded, by callers of preload and initialize, not built.
NextRequire ==
    \/ \E t \in Targets : PreloadStart(t)
    \/ \E t \in Targets : PreloadGroup1(t)
    \/ \E t \in Targets : InitializeStart(t)
    \/ \E t \in Targets : InitializeResume(t)
    \/ \E t \in Targets, op \in Ops : Deliver(t, op)
    \/ \E t \in Targets : PreloadGroup2(t)
    \/ \E t \in Targets : InitializeGroup(t)
    \/ \E t \in Targets, op \in {"preload", "initialize"} : ExternalCall(t, op)

SpecRequire == InitRequire /\ [][NextRequire]_vars

\* The construction of exe: its declared dependencies are added one by one.
InitAdd ==
    /\ dependencies = NoDependencies
    /\ preload_dependencies = NoDependencies
    /\ output = [t \in Targets |-> t]
    /\ present \in SUBSET SourceFiles
    /\ InitProcess
    /\ NoMake
    /\ BuildOnly

NextAdd == \E dependency \in Inputs : Add("exe", dependency)

SpecAdd == InitAdd /\ [][NextAdd]_vars

\* A build driven by Make: any graph of the targets, the build directory empty
\* or holding every output, any driver and any name filter.
InitMake ==
    /\ \E g \in {Graph(d, NoDependencies, NoDependencies,
                        [t \in Targets |-> t]) : d \in TargetGraphs} :
        /\ dependencies = g.dependencies
        /\ preload_dependencies = g.preload_dependencies
        /\ output = g.output
    /\ present \in {SourceFiles, SourceFiles \cup Targets}
    /\ InitProcess
    /\ driver \in {"pymake.cli", "pymake.make", "dan.make"}
    /\ required_targets \in Filters
    /\ targets = {}
    /\ tasks = {}
    /\ make = "none"
    /\ raised = NoFailure
    /\ log = {}
    /\ BuildOnly

NextMake ==
    \/ Step
    \/ MakeBuild
    \/ MakeGatherAll
    \/ MakeGather

SpecMake == InitMake /\ [][NextMake]_vars

\* Clean driven by Make: any graph of the targets, the build directory empty,
\* holding every output, or every output and the dependency file of lib; any
\* name filter; in a second run the targets are cleaned again.
InitClean ==
    /\ \E g \in {Graph(d, NoDependencies, NoDependencies,
                        [t \in Targets |-> t]) : d \in TargetGraphs} :
        /\ dependencies = g.dependencies
        /\ preload_dependencies = g.preload_dependencies
        /\ output = g.output
    /\ present \in {SourceFiles, SourceFiles \cup Targets,
                    SourceFiles \cup Targets \cup AuxFiles}
    /\ InitProcess
    /\ driver \in {"pymake.make", "dan.make"}
    /\ required_targets \in Filters
    /\ targets = {}
    /\ tasks = {}
    /\ make = "none"
    /\ raised = NoFailure
    /\ log = {}
    /\ NoClean /\ NoInstall /\ NoManifest /\ NoTest /\ NoRegistry
    /\ NoToolchain
    /\ NoSetup

NextClean ==
    \/ \E t \in Targets : PreloadStart(t)
    \/ \E t \in Targets : PreloadGroup1(t)
    \/ \E t \in Targets : InitializeStart(t)
    \/ \E t \in Targets : InitializeResume(t)
    \/ \E t \in Targets : PreloadGroup2(t)
    \/ \E t \in Targets : InitializeGroup(t)
    \/ MakeClean
    \/ \E t \in Targets : CleanStart(t)
    \/ \E t \in Targets : CleanResume(t)
    \/ \E t \in Targets, f \in Files \cup {"__clean__"} : CleanTask(t, f)
    \/ \E t \in Targets : CleanGroup(t)
    \/ MakeCleanGather
    \/ \E f \in Targets \cup AuxFiles : Vanish(f)
    \/ Restart

SpecClean == InitClean /\ [][NextClean]_vars

\* Installation of targets: any graph of the targets, the build directory
\* empty or holding every output, either mode.
InitInstall ==
    /\ \E g \in {Graph(d, NoDependencies, NoDependencies,
                        [t \in Targets |-> t]) : d \in TargetGraphs} :
        /\ dependencies = g.dependencies
        /\ preload_dependencies = g.preload_dependencies
        /\ output = g.output
    /\ present \in {SourceFiles, SourceFiles \cup Targets}
    /\ InitProcess
    /\ NoMake
    /\ install_pc = NoInstallPc
    /\ installed_files = NoInstalled
    /\ placed = NoInstalled
    /\ mode \in InstallModes
    /\ NoClean /\ NoManifest /\ NoTest /\ NoRegistry /\ NoToolchain
    /\ NoSetup

NextInstall ==
    \/ \E t \in Targets : PreloadStart(t)
    \/ \E t \in Targets : PreloadGroup1(t)
    \/ \E t \in Targets : InitializeStart(t)
    \/ \E t \in Targets : InitializeResume(t)
    \/ \E t \in Targets : BuildStart(t)
    \/ \E t \in Targets : BuildResume(t)
    \/ \E t \in Targets : PreloadGroup2(t)
    \/ \E t \in Targets : InitializeGroup(t)
    \/ \E t \in Targets : BuildGroup(t)
    \/ \E t \in Targets : BuildCheck(t)
    \/ \E t \in Targets : BuildFinish(t)
    \/ \E t \in Targets : InstallCall(t)
    \/ \E t \in Targets : InstallStart(t)
    \/ \E t \in Targets : InstallResume(t)
    \/ \E t \in Targets : InstallWrite(t)

SpecInstall == InitInstall /\ [][NextInstall]_vars

\* No target is built: what follows concerns Make, the makefiles and the
\* toolchain alone.
InitIdle ==
    /\ dependencies = NoDependencies
    /\ preload_dependencies = NoDependencies
    /\ output = [t \in Targets |-> t]
    /\ present = SourceFiles
    /\ InitProcess
    /\ NoMake

\* The manifest of an installation: the install tasks returned any lists.
InitManifest ==
    /\ InitIdle
    /\ gathered_files \in Gathered
    /\ manifest = [written |-> FALSE, lines |-> <<>>]
    /\ NoClean /\ NoInstall /\ NoTest /\ NoRegistry /\ NoToolchain
    /\ NoSetup

NextManifest == MakeInstall

SpecManifest == InitManifest /\ [][NextManifest]_vars

\* Make.test on any selection of the tests.
InitTest ==
    /\ InitIdle
    /\ tests \in SUBSET Tests
    /\ exit_code = [t \in Tests |-> NotRun]
    /\ test_result = NotRun
    /\ NoClean /\ NoInstall /\ NoManifest /\ NoRegistry /\ NoToolchain
    /\ NoSetup

NextTest ==
    \/ \E t \in Tests : RunTest(t)
    \/ MakeTest

SpecTest == InitTest /\ [][NextTest]_vars

\* Registrations of target classes in the makefiles, of pymake or of dan.
InitRegister ==
    /\ dependencies = NoDependencies
    /\ preload_dependencies = NoDependencies
    /\ output = [t \in Targets |-> t]
    /\ present = SourceFiles
    /\ InitProcess
    /\ driver \in {"pymake.make", "dan.make"}
    /\ required_targets = {}
    /\ targets = {}
    /\ tasks = {}
    /\ make = "none"
    /\ raised = NoFailure
    /\ log = {}
    /\ NoRegistry
    /\ NoClean /\ NoInstall /\ NoManifest /\ NoTest /\ NoToolchain
    /\ NoSetup

NextRegister == \E m \in MakeFiles, cls \in Classes : Register(m, cls)

SpecRegister == InitRegister /\ [][NextRegister]_vars

\* One step of the toolchain, and probes of it.
InitToolchain ==
    /\ InitIdle
    /\ NoToolchain
    /\ NoSetup
    /\ NoClean /\ NoInstall /\ NoManifest /\ NoTest /\ NoRegistry

NextToolchain ==
    \/ \E kind \in Kinds, n \in 1..MaxCommands, enabled \in BOOLEAN :
        ToolchainCall(kind, n, enabled)
    \/ ToolchainRun
    \/ \E input \in ProbeInputs : Probe(input)

SpecToolchain == InitToolchain /\ [][NextToolchain]_vars

\* Nothing is built, cleaned, installed, tested or compiled.
InitNoBuild ==
    /\ InitIdle
    /\ NoClean /\ NoInstall /\ NoManifest /\ NoTest /\ NoRegistry
    /\ NoToolchain

\* The compile-commands store of a build directory without one.
InitCompileCommands ==
    /\ InitNoBuild
    /\ NoCompileCommands
    /\ NoContext /\ NoTree /\ NoConfigure /\ NoLibraries

NextCompileCommands ==
    \E file \in Paths, directory \in BuildPaths, content \in Contents :
        Insert(file, directory, content)

SpecCompileCommands ==
    InitCompileCommands /\ [][NextCompileCommands]_vars

\* The contexts and the makefiles loaded in them, from the module as imported.
InitContext ==
    /\ InitNoBuild
    /\ NoContext
    /\ NoCompileCommands /\ NoTree /\ NoConfigure /\ NoLibraries

NextContext ==
    \/ \E c \in Contexts : ContextEnter(c)
    \/ \E raising \in BOOLEAN : ContextExit(raising)
    \/ \E m \in MakeFiles : LoadMakefile(m)
    \/ LoadReturn
    \/ LoadRaise

SpecContext == InitContext /\ [][NextContext]_vars

\* The tree of makefiles r and s, with nothing registered yet.
InitTree ==
    /\ InitNoBuild
    /\ NoTree
    /\ NoCompileCommands /\ NoContext /\ NoConfigure /\ NoLibraries

NextTree ==
    \/ \E m \in MakeFiles, kind \in {"Target", "Test"}, n \in Names :
          TreeRegister(m, kind, n)
    \/ \E m \in MakeFiles : AllTargets(m)
    \/ \E m \in MakeFiles : AllTests(m)
    \/ \E m \in MakeFiles, n \in Names : Find(m, n)

SpecTree == InitTree /\ [][NextTree]_vars

\* A Make constructed for an installation or not, with settings of any
\* values.
InitConfigure ==
    /\ InitNoBuild
    /\ for_install \in BOOLEAN
    /\ initialized = FALSE
    /\ rpath = NoRpath
    /\ installing = "none"
    /\ \E S \in SUBSET {<<"a">>, <<"b">>}, l \in {<<>>, <<(<<"a">>)>>} :
          /\ settings = [i \in Items |->
                            IF i = <<"s">> THEN SetValue(S) ELSE ListValue(l)]
          /\ applied = [input |-> <<>>, raised |-> "none",
                        before |-> settings]
    /\ NoCompileCommands /\ NoContext /\ NoTree /\ NoLibraries

NextConfigure ==
    \/ Initialize
    \/ InstallInitialize
    \/ InstallBuild
    \/ \E input \in SettingInputs : ApplySettings(input)

SpecConfigure == InitConfigure /\ [][NextConfigure]_vars

\* A LibraryList constructed without items.
InitLibraryList ==
    /\ InitNoBuild
    /\ NoLibraries
    /\ NoCompileCommands /\ NoContext /\ NoTree /\ NoConfigure

NextLibraryList ==
    \/ \E item \in Libraries : LibraryAdd(item)
    \/ \E items \in Arguments : LibraryExtend(items)

SpecLibraryList == InitLibraryList /\ [][NextLibraryList]_vars

\* ------------------------------------------------------------------ claims
Succeeded == {"built", "uptodate"}
AllTargetDependencies(t) ==
    (dependencies[t] \cup preload_dependencies[t]) \cap Targets

\* C1: however many callers call build of a target, while it runs or after it
\* completed, __prebuild__ and __build__ of the target run exactly once (and
\* __build__ not at all when the build stops before it), and every caller is
\* handed the one outcome of that execution.
C1_BuildOnceSameOutcome ==
    \A t \in Targets :
        /\ ran[t]["__prebuild__"] <= 1
        /\ ran[t]["__build__"] <= 1
        /\ observed[t]["build"] \subseteq {pc[t]["build"]}
        /\ pc[t]["build"] \in Finished \ {"GroupError"} => ran[t]["__prebuild__"] = 1
        /\ pc[t]["build"] \in {"built", "BuildError"} => ran[t]["__build__"] = 1

\* Two callers of build of one target were both handed the failure of its one
\* execution.
C1_Witness ==
    \E t \in Targets :
        /\ calls = 2
        /\ observed[t]["build"] = {"BuildError"}
        /\ \A u \in Targets, op \in Ops :
            /\ waiting[u][op] = 0
            /\ <<u, op>> # <<t, "build">> => observed[u][op] = {}

\* C2: in every graph, whoever triggers a phase of a target and in whatever
\* interleaving, __preload__, __initialize__ and __build__ of a target each run
\* at most once in a process run.
C2_HooksAtMostOnce ==
    \A t \in Targets :
        \A h \in {"__preload__", "__initialize__", "__build__"} : ran[t][h] <= 1

\* gen is a dependency of lib and of exe, and a preload dependency of exe too;
\* all three were built.
C2_Witness ==
    /\ "gen" \in dependencies["lib"]
    /\ "gen" \in dependencies["exe"] \cap preload_dependencies["exe"]
    /\ "lib" \in dependencies["exe"]
    /\ \A t \in Targets : pc[t]["build"] = "built"
    /\ \A h \in Hooks : ran["gen"][h] = 1

\* C3: when __preload__ of a target has run, the preload of each of its target
\* dependencies has completed; when its __build__ has run, the build of each
\* has completed.
C3_DependenciesFirst ==
    \A t \in Targets : \A u \in AllTargetDependencies(t) :
        /\ ran[t]["__preload__"] > 0 => pc[u]["preload"] = "ok"
        /\ ran[t]["__build__"] > 0 => pc[u]["build"] \in Succeeded

\* exe depends on gen and lib, which do not depend on each other; lib was built
\* before gen, the other order than the one of their declaration, and exe after.
C3_Witness ==
    /\ {"gen", "lib"} \subseteq dependencies["exe"]
    /\ AllTargetDependencies("lib") = {}
    /\ ran["exe"]["__build__"] = 1
    /\ pc["gen"]["build"] = "built" /\ pc["lib"]["build"] = "built"
    /\ last_built["lib"] < last_built["gen"]

\* C4: when __preload__ of a target has run, the build of each of its preload
\* dependencies has completed successfully.
C4_PreloadDependenciesBuilt ==
    \A t \in Targets : \A p \in preload_dependencies[t] :
        ran[t]["__preload__"] > 0 => pc[p]["build"] \in Succeeded

\* __preload__ ran on a target with a preload dependency that is not among its
\* dependencies.
C4_Witness ==
    \E t \in Targets : \E p \in preload_dependencies[t] \ dependencies[t] :
        /\ ran[t]["__preload__"] = 1
        /\ pc[p]["build"] = "built"

\* The lifecycle state of a target, read off its coroutines.
State(t) ==
    IF \E op \in Ops : pc[t][op] \in Raised THEN "failed"
    ELSE IF pc[t]["build"] \in Succeeded THEN "built"
    ELSE IF pc[t]["build"] \in {"group", "check", "building"} THEN "building"
    ELSE IF pc[t]["initialize"] = "ok" THEN "initialized"
    ELSE IF pc[t]["initialize"] = "group" THEN "initializing"
    ELSE IF pc[t]["preload"] = "ok" THEN "preloaded"
    ELSE IF pc[t]["preload"] \in {"start", "group1", "group2"} THEN "preloading"
    ELSE "uninitialized"

StateOrder == <<"uninitialized", "preloading", "preloaded", "initializing",
                "initialized", "building", "built", "failed">>
Rank(s) == CHOOSE i \in 1..Len(StateOrder) : StateOrder[i] = s

C5_Order ==
    \A t \in Targets :
        /\ pc[t]["initialize"] \in {"group", "ok"} => pc[t]["preload"] = "ok"
        /\ pc[t]["build"] \in {"group", "check", "building"} \cup Succeeded
            => pc[t]["initialize"] = "ok"

C5_Forward ==
    \A t \in Targets :
        /\ Rank(State(t)') >= Rank(State(t))
        /\ State(t) \in {"built", "failed"} => State(t)' = State(t)

\* C5: a target never goes back to an earlier lifecycle state and never leaves
\* built or failed; initialize starts its own work only after preload has
\* finished, and build only after initialize has finished, whichever method
\* is called first.
C5_Lifecycle == [](C5_Order) /\ [][C5_Forward]_vars

\* A target was built after a caller had called its initialize.
C5_Witness ==
    \E t \in Targets :
        /\ State(t) = "built"
        /\ observed[t]["initialize"] = {"ok"}
        /\ ran[t]["__build__"] = 1

\* C6: up_to_date is False when the expected output does not exist, and when a
\* member of the dependency set reports not up to date.
C6_FalseWhenMissingOrDependencyStale ==
    \A t \in Targets :
        /\ output_missing(t) => up_to_date(t) = {"False"}
        /\ (\E i \in dependencies[t] : item_up_to_date(i) = {"False"})
            => up_to_date(t) = {"False"}

\* C7: at the build check of a target T built before, with the output of a
\* dependency U written after that build and newer than the output of T,
\* up_to_date is False.
C7_NewerDependencyStale ==
    \A t \in Targets :
        (/\ pc[t]["build"] = "check"
         /\ t \in present /\ last_built[t] > 0
         /\ \E u \in dependencies[t] \cap Targets :
                u \in present /\ mtime[u] > mtime[t] /\ mtime[u] > last_built[t])
        => up_to_date(t) = {"False"}

\* C8: at the build check of a target whose output is older than the last
\* change of an option, up_to_date is not True.
C8_OptionChangeStale ==
    \A t \in Targets :
        (/\ pc[t]["build"] = "check"
         /\ output[t] # NoOutput /\ t \in present
         /\ options_changed > mtime[t])
        => "True" \notin up_to_date(t)

\* C9 as stated: a target with no dependencies is not up to date iff its output
\* is missing or older than the last build of the target.
C9_FalseIffMissingOrOlderThanBuild ==
    \A t \in Targets :
        (dependencies[t] = {} /\ output[t] # NoOutput)
        => (("False" \in up_to_date(t))
                <=> (t \notin present \/ mtime[t] < last_built[t]))

\* C9, amended: a target with an output path and no dependencies is not up to
\* date iff its output is missing, and up to date otherwise.
C9_FalseIffMissing ==
    \A t \in Targets :
        (dependencies[t] = {} /\ output[t] # NoOutput)
        => up_to_date(t) = IF t \in present THEN {"True"} ELSE {"False"}

\* The output of a target with no dependencies is older than its last build.
C9_Witness ==
    \E t \in Targets :
        /\ dependencies[t] = {} /\ output[t] # NoOutput
        /\ t \in present /\ mtime[t] < last_built[t]

C10_Check ==
    \A t \in Targets :
        /\ (pc[t]["build"] = "check" /\ pc'[t]["build"] = "uptodate")
            => "True" \in up_to_date(t) /\ ran' = ran
        /\ (pc[t]["build"] = "check" /\ pc'[t]["build"] # "check"
                /\ up_to_date(t) = {"True"})
            => pc'[t]["build"] = "uptodate"
        /\ ran'[t]["__build__"] > ran[t]["__build__"]
            => pc[t]["build"] = "check" /\ "False" \in up_to_date(t)

\* C10: a build whose check finds the target up to date returns without
\* running __build__ and without raising; __build__ is run only by a check that
\* found the target not up to date.
C10_UpToDateIsNoOp ==
    /\ [](\A t \in Targets : pc[t]["build"] = "uptodate" => ran[t]["__build__"] = 0)
    /\ [][C10_Check]_vars

\* exe was found up to date after its dependencies were built and its
\* __prebuild__ ran.
C10_Witness ==
    /\ pc["exe"]["build"] = "uptodate"
    /\ AllTargetDependencies("exe") # {}
    /\ ran["exe"]["__prebuild__"] = 1
    /\ ran["exe"]["__build__"] = 0

\* Every dependency of t can be asked for its modification time: a target with
\* an output path or a file that exists.
Readable(t) ==
    /\ output[t] # NoOutput
    /\ \A i \in dependencies[t] :
        IF i \in Targets THEN output[i] # NoOutput ELSE i \in present

C11_Step ==
    \A t \in Targets : \A u \in dependencies[t] \cap Targets :
        /\ (pc[u]["build"] = "check" /\ pc'[u]["build"] # "check"
                /\ output_missing(u))
            => pc'[u]["build"] = "building"
        /\ ran'[t]["__build__"] > ran[t]["__build__"]
            => pc[u]["build"] \in Succeeded
        /\ (pc[t]["build"] = "check" /\ pc'[t]["build"] # "check"
                /\ Readable(t) /\ t \in present /\ pc[u]["build"] = "built")
            => up_to_date(t) = {"False"} /\ pc'[t]["build"] = "building"

\* C11: with exe depending on lib, the output of lib missing and the output of
\* exe present, the build check of lib runs __build__ of lib; __build__ of exe
\* never starts before the build of lib has finished; and the build check of
\* exe that follows the rebuild of lib finds exe not up to date and runs
\* __build__ of exe.
C11_RebuildOrder == [][C11_Step]_vars

\* In a second run, after the output of lib was deleted, lib was rebuilt and
\* __build__ of exe, whose output exists, is running.
C11_Witness ==
    /\ run = 2 /\ env = 1
    /\ dependencies["exe"] = {"lib"} /\ dependencies["lib"] = {}
    /\ "exe" \in present /\ mtime["exe"] = 2 /\ mtime["lib"] = 3
    /\ pc["lib"]["build"] = "built"
    /\ pc["exe"]["build"] = "building"

\* C12: for a target without an output path whose dependencies were built
\* successfully, evaluating up_to_date returns True or False and build does not
\* raise.
C12_FileLessTargetsBuild ==
    \A t \in Targets :
        (/\ output[t] = NoOutput
         /\ \A d \in target_dependencies(t) : pc[d]["build"] \in Succeeded)
        => /\ up_to_date(t) \subseteq {"True", "False"}
           /\ pc[t]["build"] \notin Raised

\* C13: while __build__ of a target runs the process working directory is the
\* build path of the target, and once no __build__ runs any more, whether it
\* returned or raised, the working directory is the one the process had before.
C13_WorkingDirectory ==
    /\ \A t \in Targets : pc[t]["build"] = "building" => cwd = build_path(t)
    /\ (\A t \in Targets : pc[t]["build"] # "building") => cwd = "cwd"

\* C14: once the preload of a target has completed, its dependency set holds
\* no requirement.
C14_NoRequirementAfterPreload ==
    \A t \in Targets : pc[t]["preload"] = "ok" => requires(t) = {}

\* The members of D each have a modification time: targets with an output
\* path, files that exist.
Timed(D) == \A i \in D : item_modification_time(i).raise = ""

Unresolvable(dependency) ==
    \/ dependency.kind \in {"int", "NoneType"}
    \/ /\ dependency.kind = "str"
       /\ dependency.value \notin Packages \cup present \cup Requirements
    \/ dependency.kind = "type" /\ dependency.value \notin Targets

\* C16: Dependencies.add of a value that resolves to no target, file or
\* requirement raises a configuration error that names the value, and leaves
\* the dependency set as it was.
C16_UnresolvableAddFails ==
    (added.target # "none" /\ Unresolvable(added.input))
    => /\ added.raise \in {"RuntimeError", "ConfigurationError"}
       /\ added.names = added.input.value
       /\ dependencies[added.target] = added.before

\* The tasks of Make.build whose target failed.
Errors == {t \in tasks : pc[t]["build"] \in Raised}
Ended == make \in {"returned", "raised"}

\* C17: Make.build creates one task per active target, and when it returns or
\* raises the build of every one of them has run to its success or failure.
C17_SiblingsRunToCompletion ==
    /\ make = "gather" => tasks = Resolved
    /\ (Ended /\ raised # NoMatch)
        => \A t \in tasks : Done(t) /\ pc[t]["build"] \in Finished

\* C18: at the end of dan's Make.build: it returns when no active target
\* failed; it raises the failure of the target when exactly one failed; it
\* raises one aggregate failure, which is none of the targets' failures, when
\* more than one failed.
C18_OneOrAggregate ==
    (driver = "dan.make" /\ Ended) =>
        /\ Errors = {} => make = "returned" /\ raised = NoFailure
        /\ \A t \in tasks :
            Errors = {t} => make = "raised" /\ raised = Failure(t)
        /\ Cardinality(Errors) > 1 =>
            /\ make = "raised" /\ raised = Aggregate
            /\ \A t \in Errors : raised # Failure(t)

\* Of three active targets one failed in its __build__, the two others were
\* built; Make.build raised the failure of that target.
C18_Witness ==
    /\ driver = "dan.make" /\ tasks = Targets
    /\ \E t \in Targets :
        /\ raised = [target |-> t, error |-> "BuildError"]
        /\ \A u \in Targets \ {t} : pc[u]["build"] = "built"

\* C19: when dan's Make.build has raised the aggregate failure, the failure of
\* every active target that failed is in the log.
C19_LoggedBeforeAggregate ==
    (driver = "dan.make" /\ raised = Aggregate)
    => \A t \in Errors : Failure(t) \in log

\* Two active targets failed in their __build__, a third was built; the
\* aggregate failure was raised.
C19_Witness ==
    /\ driver = "dan.make" /\ raised = Aggregate
    /\ \E t \in tasks :
        /\ pc[t]["build"] = "built"
        /\ \A u \in Targets \ {t} :
            [target |-> u, error |-> "BuildError"] \in log

\* C20: a build requested with a name filter that selects no target ends with
\* the "no match" error, not with a build of nothing that returns.
C20_NoMatchRaises ==
    (Cardinality(required_targets) > 0 /\ Ended /\ tasks = {})
    => make = "raised" /\ raised = NoMatch

\* The targets of the whole makefile tree.
Tree == UNION {makefile_targets(m) : m \in MakeFiles}

\* The qualified name of t matches the filter r, which may stand anywhere in
\* the name.
GlobMatches(t, r) ==
    \E i, j \in 0..Len(FullName(t)) :
        /\ i <= j
        /\ fnmatch(SubSeq(FullName(t), i + 1, j), r)

\* The active target set the filters of the request stand for.
Active ==
    IF required_targets = {}
    THEN {t \in Tree : default(t)}
    ELSE {t \in Tree : \E r \in required_targets : GlobMatches(t, r)}

\* C21: the targets Make builds are, with a name filter, exactly the targets
\* of the whole makefile tree whose qualified name glob-matches at least one
\* filter and, without a filter, exactly the targets of the tree flagged
\* default.
C21_ActiveTargets == make = "gather" => tasks = Active

\* The same for dan's Make alone.
C21_DanActiveTargets == driver = "dan.make" => C21_ActiveTargets

\* C22: clean of a target that could be initialized does not raise: an output
\* or other generated file that is missing is tolerated, also when it
\* disappears between the existence check and its removal.
C22_CleanToleratesMissingFiles ==
    \A t \in Targets :
        pc[t]["initialize"] = "ok" => clean_pc[t] \notin Raised

\* The targets reachable from t through dependencies, t included.
RECURSIVE Reachable(_)
Reachable(t) ==
    {t} \cup UNION {Reachable(u) : u \in target_dependencies(t)}

\* C23: once clean of a target has completed, the output and the other
\* generated files of the target and of every target reachable from it
\* through dependencies are absent.
C23_CleanIsRecursive ==
    \A t \in Targets :
        clean_pc[t] = "ok" =>
            \A u \in Reachable(t) :
                ({output[u]} \cup other_generated_files(u)) \cap present = {}

\* C24: install of a target writes nothing before the build of the target
\* has succeeded; what it returns is the list of the files it wrote; when the
\* build has failed install raises that failure and has written nothing.
C24_InstallBuildsFirst ==
    \A t \in Targets :
        /\ placed[t] # {} => pc[t]["build"] \in Succeeded
        /\ install_pc[t] \in {"open", "returned"}
            => pc[t]["build"] \in Succeeded
        /\ install_pc[t] = "returned" => installed_files[t] = placed[t]
        /\ (pc[t]["build"] \in Raised
                /\ install_pc[t] \notin {"none", "start", "await_build"})
            => install_pc[t] = pc[t]["build"] /\ placed[t] = {}

\* In dev mode, install of one target returned the file of its utilities after
\* the target was built, and install of another raised the failure of its
\* __build__.
C24_Witness ==
    /\ mode = "dev"
    /\ \E t, u \in Targets :
        /\ install_pc[t] = "returned"
        /\ installed_files[t] = {filepath(t)}
        /\ pc[t]["build"] = "built"
        /\ install_pc[u] = "BuildError"

\* The paths that occur in a list, at any depth.
RECURSIVE PathsIn(_)
PathsIn(l) ==
    UNION {IF "path" \in DOMAIN l[i] THEN {l[i].path} ELSE PathsIn(l[i].list) :
            i \in 1..Len(l)}

\* C25: the manifest Make.install writes has one line for each file that
\* occurs, at any depth, in the lists the installed targets returned, and no
\* two lines for one file.
C25_ManifestFlattenedUnion ==
    manifest.written =>
        /\ {manifest.lines[i] : i \in 1..Len(manifest.lines)}
            = {relpath(f, manifest_parent) \o <<"\n">> :
                f \in PathsIn(gathered_files)}
        /\ Len(manifest.lines) = Cardinality(PathsIn(gathered_files))

\* Two targets returned lists: the first holds both files, one of them in a
\* list within the list, the second holds one of them again; the manifest has
\* two lines.
C25_Witness ==
    /\ manifest.written
    /\ Len(gathered_files) = 2
    /\ PathsIn(gathered_files[1].list) = InstalledPaths
    /\ \E j \in 1..Len(gathered_files[1].list) :
        Iterable(gathered_files[1].list[j])
    /\ Cardinality(PathsIn(gathered_files[2].list)) = 1
    /\ Len(flatten(gathered_files)) = 3
    /\ Len(manifest.lines) = 2

\* C26: Make.test returns 0 if the executable of every selected test exited
\* with code 0, and 255 if one of them did not.
C26_TestResult ==
    test_result # NotRun =>
        test_result = IF \A t \in tests : exit_code[t] = 0 THEN 0 ELSE 255

\* Of three selected tests two passed and one exited with code 2: 255.
C26_Witness ==
    /\ tests = Tests
    /\ test_result = 255
    /\ \E t \in tests :
        /\ exit_code[t] = 2
        /\ \A u \in tests \ {t} : exit_code[u] = 0

\* The qualified name of a registered target.
QualifiedName(x) == <<makefile_fullname(x.makefile), class_name(x.cls)>>

\* C27: after any registrations, no two registered targets have the same
\* qualified name.
C27_DistinctQualifiedNames ==
    \A x, y \in registered : x # y => QualifiedName(x) # QualifiedName(y)

\* The commands a step has run are its first ones, each once, in order.
InOrder == \A i \in 1..Len(ran_commands) : ran_commands[i].command = i - 1

\* The command that exited non-zero, if any, is the last one run.
StoppedAtFailure ==
    \A i \in 1..Len(ran_commands) :
        ran_commands[i].rc # 0 => i = Len(ran_commands) /\ step.status = "raised"

\* C28: compile and link run their commands in order; at the first command
\* that exits non-zero no later command is run, and CompilationFailure
\* (compile) or LinkageFailure (link) is raised with that command, the output
\* of its process, the diagnostics collected so far and the toolchain.
C28_PipelineStopsAtFirstFailure ==
    step.kind \in {"compile", "link"} =>
        /\ InOrder
        /\ StoppedAtFailure
        /\ step.status = "returned" =>
            /\ Len(ran_commands) = step.commands
            /\ failure = NoToolchainFailure
        /\ step.status = "raised" =>
            LET failed == ran_commands[Len(ran_commands)].command
            IN /\ failure.class = IF step.kind = "compile"
                                  THEN "CompilationFailure"
                                  ELSE "LinkageFailure"
               /\ failure.command = failed
               /\ failure.stdout = stdout(step.kind, failed)
               /\ failure.stderr = stderr(step.kind, failed)
               /\ failure.diags = diags
               /\ failure.toolchain = "self"

\* Of the three commands of a compile step the second failed, after each of
\* the two had a diagnostic collected.
C28_Witness ==
    /\ step.kind = "compile" /\ step.commands = 3
    /\ step.status = "raised"
    /\ Len(ran_commands) = 2
    /\ failure.command = 1 /\ failure.diags = 2

\* C29: whatever the step, a command that exits non-zero makes the step
\* raise CompilationFailure, LinkageFailure or ArchiveFailure, with the
\* failing command and the output of its process.
C29_EveryStepClassified ==
    step.status = "raised" =>
        LET failed == ran_commands[Len(ran_commands)].command
        IN /\ failure.class \in {"CompilationFailure", "LinkageFailure",
                                 "ArchiveFailure"}
           /\ failure.command = failed
           /\ failure.stdout = stdout(step.kind, failed)
           /\ failure.stderr = stderr(step.kind, failed)

\* C30: for each probe input at most one compiler process is spawned, and
\* every probe of the input returns what the first one returned.
C30_ProbesCached ==
    \A input \in ProbeInputs :
        /\ spawned[input] <= 1
        /\ \A i \in 1..Len(probed[input]) : probed[input][i] = probed[input][1]

\* C31: after every CompileCommands.insert the store holds at most one entry
\* for each file and exactly one for the inserted file, which carries the
\* inserted arguments or command, and every entry of another file is still
\* in it.
EntriesOf(entries, file) ==
    { i \in 1..Len(entries) : entries[i].file = str(file) }

C31_InsertUpdatesOneEntryPerFile ==
    [][\A file \in Paths, directory \in BuildPaths, content \in Contents :
          Insert(file, directory, content) =>
              /\ \A f \in Paths : Cardinality(EntriesOf(data', f)) <= 1
              /\ \E i \in EntriesOf(data', file) :
                    data'[i][content.key] = content.value
              /\ \A i \in 1..Len(data) :
                    data[i].file # str(file) => data[i] \in Range(data')
      ]_vars

\* C32: when a Context with-block or the load of a makefile has finished,
\* by returning or by raising, the active context and the current-makefile
\* stacks are what they were before it started, whatever the nesting.
C32_ActivationReleased ==
    released.kind # "none" => released.after = released.before

\* C33: when the task group in which a target builds, preloads or
\* initializes its dependencies fails, every dependency of the group has run
\* to its own completion: none is cancelled, none is left in progress.
LeftFailed(t, op, from) ==
    pc[t][op] = from /\ pc'[t][op] = "GroupError"

C33_FailureWaitsForSiblings ==
    [][\A t \in Targets :
          /\ \A op \in {"build", "initialize"} :
                LeftFailed(t, op, "group") =>
                    \A d \in target_dependencies(t) : pc[d][op] \in Finished
          /\ LeftFailed(t, "preload", "group2") =>
                \A d \in target_dependencies(t) : pc[d]["preload"] \in Finished
          /\ LeftFailed(t, "preload", "group1") =>
                \A d \in preload_group1(t) : pc[d]["build"] \in Finished
      ]_vars

\* exe failed because of one dependency while another one was built.
C33_Witness ==
    \E t \in Targets : \E d1, d2 \in target_dependencies(t) :
        /\ d1 # d2
        /\ pc[t]["build"] = "GroupError"
        /\ pc[d1]["build"] \in Raised
        /\ pc[d2]["build"] \in Finished \ Raised
        /\ ran[d2]["__build__"] = 1

\* C34: a target one of whose dependencies failed to build runs neither its
\* __prebuild__ nor its __build__ hook, and when its build is over it has
\* failed; so does every target that depends on it.
C34_FailurePropagates ==
    \A t \in Targets :
        (\E d \in target_dependencies(t) : pc[d]["build"] \in Raised) =>
            /\ ran[t]["__prebuild__"] = 0
            /\ ran[t]["__build__"] = 0
            /\ pc[t]["build"] \in Finished => pc[t]["build"] \in Raised

\* The build of one target failed, the build of a dependent of it failed for
\* that, and the build of a dependent of the dependent too.
C34_Witness ==
    \E d, t, u \in Targets :
        /\ d \in target_dependencies(t)
        /\ t \in target_dependencies(u)
        /\ pc[d]["build"] \in Raised \ {"GroupError"}
        /\ pc[t]["build"] = "GroupError"
        /\ pc[u]["build"] = "GroupError"

\* C35: when Make.build has returned or raised, the targets of the Make are
\* the ones it had when build resolved them.
C35_BuildLeavesTargets ==
    make \in {"returned", "raised"} => targets = tasks

\* C36: whatever was read, the targets and the tests of a makefile are
\* targets and tests registered on that makefile.
C36_ReadsLeaveNodeSets ==
    \A m \in MakeFiles :
        \A t \in node_targets[m] \cup node_tests[m] : t.makefile = m

\* C37: find returns a target of the given name exactly when one is
\* registered in the tree at the time of the call, whatever was looked for
\* before.
Registered(n) ==
    \E m \in MakeFiles : \E t \in node_targets[m] : t.name = n

C37_FindSeesRegistered ==
    [][\A m \in MakeFiles, n \in Names :
          Find(m, n) =>
              /\ find_result'.result # NoTarget <=> Registered(n)
              /\ find_result'.result # NoTarget =>
                    find_result'.result.name = n
      ]_vars

\* C38: once Make.install builds the targets, and from then on, the rpath of
\* the target toolchain is the library destination of the installation.
C38_RpathSetBeforeInstallBuild ==
    installing \in {"build", "installed"} => rpath = library_dest

\* C39: a LibraryList never holds an item twice.
C39_NoDuplicates ==
    \A i, j \in 1..Len(lst) : lst[i] = lst[j] => i = j

\* C40: an input name+=a;b extends the collection of the named setting with
\* a and b, name-=a takes a out of it, name-=* empties it and name=v replaces
\* it; any input of another form raises and leaves the settings as they were.
Overridden(old, assign, v) ==
    LET items == split(v)
    IN  IF old.type = "set"
        THEN CASE assign = <<"+", "=">> -> SetValue(old.set \cup Range(items))
               [] assign = <<"-", "=">> ->
                    IF v = <<"*">> THEN SetValue({})
                    ELSE SetValue(old.set \ Range(items))
               [] OTHER -> SetValue(Range(items))
        ELSE CASE assign = <<"+", "=">> -> ListValue(old.list \o items)
               [] assign = <<"-", "=">> ->
                    IF v = <<"*">> THEN ListValue(<<>>)
                    ELSE ListValue(remove_each(old.list, items))
               [] OTHER -> ListValue(items)

C40_Overrides ==
    applied.input # <<>> =>
        LET forms == { f \in Items \X Assignments \X Values :
                          f[1] \o f[2] \o f[3] = applied.input }
        IN  IF forms = {}
            THEN applied.raised # "none" /\ settings = applied.before
            ELSE \E f \in forms :
                    /\ applied.raised = "none"
                    /\ settings =
                          [applied.before EXCEPT
                              ![f[1]] = Overridden(@, f[2], f[3])]

====
